------------------------------- MODULE Handles -------------------------------
(***************************************************************************)
(* Kotlin handles on native objects (class DisposableWithId) and the       *)
(* registry that maps ids to the objects.  A handle keeps its id for ever, *)
(* the id of an erased object is handed out again, and dispose is three    *)
(* steps: read isDisposed, erase the entry with the handle's id, set       *)
(* isDisposed.  A constructor is one step here and several in module       *)
(* Construction, which implements this one.                                *)
(***************************************************************************)
EXTENDS RegistryIds, FiniteSets

CONSTANTS
  Handles,       \* Kotlin objects of one class
  Threads,
  MayDispose,    \* the threads that call dispose of each handle
  Nobody,        \* a free id
  Orphan,        \* an object whose constructor failed
  MaxOrphans     \* bound: how often a constructor fails

ASSUME MayDisposeAssumption == MayDispose \in [Handles -> SUBSET Threads]
ASSUME SentinelAssumption   == Nobody \notin Handles /\ Orphan \notin Handles /\ Nobody # Orphan

VARIABLES
  registry,     \* the handle each id's native object was created for
  id,           \* the val id of each handle, 0 before it is constructed
  isDisposed,
  pc,           \* where each thread is in dispose
  on,           \* the handle it disposes
  disposals     \* history: how often disposeImplementation ran for a handle

vars == <<registry, id, isDisposed, pc, on, disposals>>

Keys    == {k \in Ids : registry[k] # Nobody}
Orphans == {k \in Ids : registry[k] = Orphan}

\* Each handle is disposed by one thread only.
SingleDisposer == \A h \in Handles : \A t, u \in MayDispose[h] : t = u

Init ==
  /\ registry = [k \in Ids |-> Nobody]
  /\ id = [h \in Handles |-> 0]
  /\ isDisposed = [h \in Handles |-> FALSE]
  /\ pc = [t \in Threads |-> "idle"]
  /\ on \in [Threads -> Handles]
  /\ disposals = [h \in Handles |-> 0]

-----------------------------------------------------------------------------
(* Mutants of the actions below. *)

ThrowSwallowed(h, k) ==
  /\ registry' = [registry EXCEPT ![k] = Orphan] /\ id' = [id EXCEPT ![h] = -1]
  /\ UNCHANGED <<isDisposed, pc, on, disposals>>
EraseForgetsEntry(t) ==
  /\ pc[t] = "checked" /\ pc' = [pc EXCEPT ![t] = "erased"]
  /\ disposals' = [disposals EXCEPT ![on[t]] = @ + 1]
  /\ UNCHANGED <<registry, id, isDisposed, on>>
MarkDisposedForgotten(t) ==
  /\ pc[t] = "erased" /\ pc' = [pc EXCEPT ![t] = "idle"]
  /\ UNCHANGED <<registry, id, isDisposed, on, disposals>>
CheckNothing(t, h) ==
  /\ pc[t] = "idle" /\ id[h] # 0 /\ t \in MayDispose[h]
  /\ pc' = [pc EXCEPT ![t] = "checked"] /\ on' = [on EXCEPT ![t] = h]
  /\ UNCHANGED <<registry, id, isDisposed, disposals>>

-----------------------------------------------------------------------------

\* The id a constructor finds.
Free(k) == IsMissingKey(Keys, k)

\* newProblem, newDomain, newSetOfInferences, newGoalsRemovedTracker: the entry
\* is made, and the handle gets the id that is returned.
Insert(h, k) ==
  /\ registry' = [registry EXCEPT ![k] = h]
  /\ id' = [id EXCEPT ![h] = k]
  /\ UNCHANGED <<isDisposed, pc, on, disposals>>

\* newProblem throws after it made the entry: the Kotlin constructor throws
\* too and no handle is left to dispose of the entry.
Throw(h, k) ==
  /\ registry' = [registry EXCEPT ![k] = Orphan]
  /\ UNCHANGED <<id, isDisposed, pc, on, disposals>>

New(h, k) == id[h] = 0 /\ Free(k) /\ Insert(h, k)

MayThrow == Cardinality(Orphans) < MaxOrphans
NewFails(h, k) == id[h] = 0 /\ Free(k) /\ MayThrow /\ Throw(h, k)

\* The first test of dispose.
CheckNotDisposed(t, h) ==
  /\ pc[t] = "idle" /\ id[h] # 0 /\ t \in MayDispose[h]
  /\ ~ isDisposed[h]
  /\ pc' = [pc EXCEPT ![t] = "checked"] /\ on' = [on EXCEPT ![t] = h]
  /\ UNCHANGED <<registry, id, isDisposed, disposals>>

\* disposeImplementation: erase whatever entry has the id of the handle.
DisposeImplementation(t) ==
  /\ pc[t] = "checked" /\ pc' = [pc EXCEPT ![t] = "erased"]
  /\ registry' = [registry EXCEPT ![id[on[t]]] = Nobody]
  /\ disposals' = [disposals EXCEPT ![on[t]] = @ + 1]
  /\ UNCHANGED <<id, isDisposed, on>>

MarkDisposed(t) ==
  /\ pc[t] = "erased" /\ pc' = [pc EXCEPT ![t] = "idle"]
  /\ isDisposed' = [isDisposed EXCEPT ![on[t]] = TRUE]
  /\ UNCHANGED <<registry, id, on, disposals>>

\* A disposed handle is dropped by its client: h stands for a new object.
Collect(h) ==
  /\ isDisposed[h] /\ \A t \in Threads : pc[t] # "idle" => on[t] # h
  /\ id' = [id EXCEPT ![h] = 0]
  /\ isDisposed' = [isDisposed EXCEPT ![h] = FALSE]
  /\ disposals' = [disposals EXCEPT ![h] = 0]
  /\ UNCHANGED <<registry, pc, on>>

Next ==
  \/ \E h \in Handles, k \in Ids : New(h, k) \/ NewFails(h, k)
  \/ \E t \in Threads, h \in Handles : CheckNotDisposed(t, h)
  \/ \E t \in Threads : DisposeImplementation(t) \/ MarkDisposed(t)
  \/ \E h \in Handles : Collect(h)

Spec == Init /\ [][Next]_vars

-----------------------------------------------------------------------------

Disposing(t, h, where) == pc[t] = where /\ on[t] = h

\* A handle whose object nobody has begun to erase.
IsLive(h) == id[h] # 0 /\ ~ isDisposed[h] /\ \A t \in Threads : ~ Disposing(t, h, "erased")

TypeOK ==
  /\ registry \in [Ids -> Handles \cup {Nobody, Orphan}]
  /\ id \in [Handles -> {0} \cup Ids]
  /\ isDisposed \in [Handles -> BOOLEAN]
  /\ pc \in [Threads -> {"idle", "checked", "erased"}]
  /\ on \in [Threads -> Handles]
  /\ disposals \in [Handles -> Nat]

\* A call on a handle that is not disposed finds the object made for that
\* handle, although ids are recycled: neither a constructor nor the dispose
\* of another handle took it away.
LiveHandleOwnsItsObject == \A h \in Handles : IsLive(h) => registry[id[h]] = h

\* No native object outlives its handle's dispose: an entry belongs to the
\* live handle that has its id (or to no handle, if its constructor failed).
EntriesAreOwned ==
  \A k \in Keys \ Orphans : id[registry[k]] = k /\ IsLive(registry[k])

\* The dispose code runs at the first call only (DisposableWithId.kt:4): true if
\* one thread disposes each handle, and no longer when two threads read
\* isDisposed before either sets it.
DisposeCodeOnce == \A h \in Handles : disposals[h] <= 1

\* A native object lives exactly from its handle's construction to that
\* handle's dispose.
Status == [h \in Handles |->
  CASE id[h] = 0 -> "unborn"
    [] id[h] # 0 /\ registry[id[h]] # h -> "dead"
    [] OTHER -> IF \E t \in Threads : Disposing(t, h, "checked") THEN "closing" ELSE "live"]
Store == INSTANCE ObjectStore WITH status <- Status
ImplementsObjectStore == Store!Spec
=============================================================================
