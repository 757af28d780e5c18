---------------------------- MODULE Construction ----------------------------
(***************************************************************************)
(* A Kotlin constructor with an id as it runs: findMissingKey walks the    *)
(* registry one entry per step, then the entry is made and the id goes to  *)
(* the handle.  The mutex of the unit is held meanwhile, so no other       *)
(* constructor and no erase gets in between; the steps of dispose that do  *)
(* not touch the registry do.  The build inlines these handlers: Mutexes   *)
(* is about the builds that do not.                                        *)
(***************************************************************************)
EXTENDS Handles

VARIABLES
  constructing,                   \* the handle whose constructor runs, or Nobody
  keys, rest, currentId, result   \* the loop of findMissingKey

Loop == INSTANCE MissingKey

loopVars == <<keys, rest, currentId, result>>
constructionVars == <<vars, constructing, loopVars>>

InitConstruction == Init /\ constructing = Nobody /\ Loop!Init

-----------------------------------------------------------------------------

MutexIsFree == constructing = Nobody

\* The registry has room: see MaxId.
BeginNew(h) ==
  /\ MutexIsFree /\ id[h] = 0 /\ Keys # Ids
  /\ constructing' = h /\ Loop!Begin(Keys)
  /\ UNCHANGED vars

SearchId == ~ MutexIsFree /\ Loop!Step /\ UNCHANGED <<vars, constructing>>

EndNew ==
  /\ ~ MutexIsFree /\ result # 0
  /\ Insert(constructing, result) \/ (MayThrow /\ Throw(constructing, result))
  /\ constructing' = Nobody /\ UNCHANGED loopVars

\* dispose waits for the mutex when it erases the entry, and only then.
Erase(t) == MutexIsFree /\ DisposeImplementation(t) /\ UNCHANGED <<constructing, loopVars>>
Mark(t)  == MarkDisposed(t) /\ UNCHANGED <<constructing, loopVars>>

NextConstruction ==
  \/ \E h \in Handles : BeginNew(h)
  \/ SearchId
  \/ EndNew
  \/ \E t \in Threads : Erase(t) \/ Mark(t)
  \/ /\ \/ \E t \in Threads, h \in Handles : CheckNotDisposed(t, h)
        \/ \E h \in Handles : Collect(h)
     /\ UNCHANGED <<constructing, loopVars>>

ConstructionSpec == InitConstruction /\ [][NextConstruction]_constructionVars

\* A thread that entered dispose is scheduled again, and gets a mutex that
\* stays free.  Nothing makes a client construct, dispose or drop a handle.
FairConstructionSpec ==
  /\ ConstructionSpec
  /\ \A t \in Threads : WF_constructionVars(Erase(t)) /\ WF_constructionVars(Mark(t))

-----------------------------------------------------------------------------

ConstructionTypeOK ==
  /\ TypeOK /\ Loop!TypeOK
  /\ constructing \in Handles \cup {Nobody}

\* The loop invariant of findMissingKey and its result, for every map that a
\* constructor finds: the id returned is free and every smaller one is taken.
Visited           == Loop!Visited
ReturnsMissingKey == Loop!ReturnsMissingKey

\* A constructor takes one step for its callers: the id it found at the end is
\* still the least free one, although dispose runs in other threads meanwhile.
ImplementsHandles == Spec

\* A dispose that passed its test ends with isDisposed set, if constructors do
\* not keep the mutex from it again and again.
DisposeCompletes ==
  \A t \in Threads, h \in Handles :
    <>[]MutexIsFree => (Disposing(t, h, "checked") ~> isDisposed[h])
=============================================================================
