----------------------- MODULE CriticalSectionsProofs -----------------------
(***************************************************************************)
(* What the mutexes of the units guarantee, and what handlers do while     *)
(* they hold one, proved for any number of threads, handlers, objects and  *)
(* items and, where a theorem does not say otherwise, for every build:     *)
(* whichever template calls the compiler inlined.                          *)
(*                                                                         *)
(* Mutexes.  The invariant is that a mutex is owned exactly while its      *)
(* owner is inside a handler that locked it; two threads inside therefore  *)
(* hold different mutexes, and what is left is which handlers share one.   *)
(*                                                                         *)
(* FlushCache.  A flush loses nothing and returns nothing twice when every *)
(* handler that fills the cache locks the mutex that the flush locks; the  *)
(* run FlushGoalsRemoved shows that this assumption is needed.  Only one   *)
(* thread is inside then, so from the copy to the clear the cache is what  *)
(* was copied, and from the clear to the return the copy is apart from the *)
(* cache.                                                                  *)
(*                                                                         *)
(* Lookups.  In builds that inline every template call, pointers into the  *)
(* registry of the handler's own unit are good for every client, those to  *)
(* an object that one thread uses are good in all registries.              *)
(***************************************************************************)
EXTENDS FlushCache, Lookups, TLAPS

-----------------------------------------------------------------------------
(* Mutexes. *)

IInv == LocksTypeOK /\ OwnerIsInside

LEMMA HandlersHaveReturns ==
  ASSUME NEW h \in Handlers
  PROVE  h.returns \in {"void", "jint", "jobjectArray", "jboolean", "jobject", "jstring"}
BY DEF Handlers, ProblemHandlers, DomainHandlers, SetHandlers, TrackerHandlers,
       PlannerHandlers, PrintHandlers, ReplaceHandlers, Exported

\* The units that keep a copy of the template are units of handlers.
LEMMA KeepersAreUnits == {"tracker", "print", "planner", "problem"} \subseteq Units
<1>1. "tracker" \in Units
  <2> DEFINE row == [name |-> "flushGoalsRemoved", unit |-> "tracker", returns |-> "jobjectArray",
                     changes |-> {}, looksUp |-> {"trackers"}]
  <2>1. row \in TrackerHandlers
    BY DEF TrackerHandlers, Exported
  <2>2. row \in Handlers /\ row.unit = "tracker"
    BY <2>1 DEF Handlers
  <2> QED
    BY <2>2 DEF Units
<1>2. "print" \in Units
  <2> DEFINE row == [name |-> "printFacts", unit |-> "print", returns |-> "jstring",
                     changes |-> {}, looksUp |-> {"problems"}]
  <2>1. row \in PrintHandlers
    BY DEF PrintHandlers, Exported
  <2>2. row \in Handlers /\ row.unit = "print"
    BY <2>1 DEF Handlers
  <2> QED
    BY <2>2 DEF Units
<1>3. "planner" \in Units
  <2> DEFINE row == [name |-> "lookForAnActionToDo", unit |-> "planner", returns |-> "jobject",
                     changes |-> {}, looksUp |-> {"problems", "domains"}]
  <2>1. row \in PlannerHandlers
    BY DEF PlannerHandlers, Exported
  <2>2. row \in Handlers /\ row.unit = "planner"
    BY <2>1 DEF Handlers
  <2> QED
    BY <2>2 DEF Units
<1>4. "problem" \in Units
  <2> DEFINE row == [name |-> "hasFact", unit |-> "problem", returns |-> "jboolean",
                     changes |-> {}, looksUp |-> {"problems"}]
  <2>1. row \in ProblemHandlers
    BY DEF ProblemHandlers, Exported
  <2>2. row \in Handlers /\ row.unit = "problem"
    BY <2>1 DEF Handlers
  <2> QED
    BY <2>2 DEF Units
<1> QED
  BY <1>1, <1>2, <1>3, <1>4

LEMMA LockIsUnit ==
  ASSUME NEW h \in Handlers
  PROVE  LockOf(h) \in Units
<1>1. h.unit \in Units
  BY DEF Units
<1>2. h.returns # "void" => FirstUnit(h.returns) \in {"tracker", "print", "planner", "problem"}
  BY HandlersHaveReturns DEF FirstUnit
<1> QED
  BY <1>1, <1>2, KeepersAreUnits DEF LockOf

\* A name of the table stands for one of its rows.
LEMMA InitialCall == Named("hasFact") \in Handlers
<1> DEFINE row == [name |-> "hasFact", unit |-> "problem", returns |-> "jboolean",
                   changes |-> {}, looksUp |-> {"problems"}]
<1>1. row \in ProblemHandlers
  BY DEF ProblemHandlers, Exported
<1>2. row \in Handlers /\ row.name = "hasFact"
  BY <1>1 DEF Handlers
<1> QED
  BY <1>2 DEF Named

LEMMA InitIInv == InitLocks => IInv
BY InitialCall, NoThreadAssumption DEF InitLocks, IInv, LocksTypeOK, OwnerIsInside, Inside

LEMMA CallIInv ==
  ASSUME IInv, NEW t \in Threads, NEW h \in Handlers, Call(t, h)
  PROVE  IInv'
BY DEF IInv, LocksTypeOK, OwnerIsInside, Inside, Call

LEMMA LockIInv ==
  ASSUME IInv, NEW t \in Threads, Lock(t)
  PROVE  IInv'
<1>1. LockOf(call[t]) \in Units
  BY LockIsUnit DEF IInv, LocksTypeOK
<1>2. LocksTypeOK'
  BY <1>1 DEF IInv, LocksTypeOK, Lock
<1>3. OwnerIsInside'
  BY <1>1, NoThreadAssumption DEF IInv, LocksTypeOK, OwnerIsInside, Inside, Lock, LockOf
<1> QED
  BY <1>2, <1>3 DEF IInv

LEMMA ReturnIInv ==
  ASSUME IInv, NEW t \in Threads, Return(t)
  PROVE  IInv'
<1>1. LockOf(call[t]) \in Units
  BY LockIsUnit DEF IInv, LocksTypeOK
<1>2. LocksTypeOK'
  BY <1>1 DEF IInv, LocksTypeOK, Return
<1>3. OwnerIsInside'
  BY <1>1, NoThreadAssumption DEF IInv, LocksTypeOK, OwnerIsInside, Inside, Return, LockOf
<1> QED
  BY <1>2, <1>3 DEF IInv

LEMMA NextIInv ==
  ASSUME IInv, [NextLocks]_lockVars
  PROVE  IInv'
<1>1. CASE NextLocks
  BY <1>1, CallIInv, LockIInv, ReturnIInv DEF NextLocks
<1>2. CASE UNCHANGED lockVars
  BY <1>2 DEF lockVars, IInv, LocksTypeOK, OwnerIsInside, Inside, LockOf
<1> QED
  BY <1>1, <1>2

\* Two threads inside hold different mutexes.
LEMMA InsideHoldDifferentLocks ==
  ASSUME IInv, NEW t \in Threads, NEW u \in Threads, t # u, Inside(t), Inside(u)
  PROVE  /\ call[t] \in Handlers /\ call[u] \in Handlers
         /\ LockOf(call[t]) # LockOf(call[u])
<1>1. call[t] \in Handlers /\ call[u] \in Handlers
  BY DEF IInv, LocksTypeOK
<1>2. owner[LockOf(call[t])] = t /\ owner[LockOf(call[u])] = u
  BY <1>1, LockIsUnit DEF IInv, OwnerIsInside
<1> QED
  BY <1>1, <1>2

\* Threads, handlers and mutexes keep their types, and no mutex is lost or
\* taken twice.
THEOREM MutexesAreSound == LocksSpec => [](LocksTypeOK /\ OwnerIsInside)
<1>1. IInv => LocksTypeOK /\ OwnerIsInside
  BY DEF IInv
<1> QED
  BY InitIInv, NextIInv, <1>1, PTL DEF LocksSpec

\* In every build two void handlers of one unit are never inside together.
THEOREM VoidHandlersAreAtomic == LocksSpec => []VoidHandlersExclude
<1>1. IInv => VoidHandlersExclude
  <2> SUFFICES ASSUME IInv, NEW t \in Threads, NEW u \in Threads,
                      t # u, Inside(t), Inside(u),
                      call[t].returns = "void", call[u].returns = "void"
               PROVE  call[t].unit # call[u].unit
    BY DEF VoidHandlersExclude
  <2> QED
    BY InsideHoldDifferentLocks DEF LockOf
<1> QED
  BY InitIInv, NextIInv, <1>1, PTL DEF LocksSpec

\* When every template call is inlined the handlers of one unit exclude each
\* other: a handler of Problem is atomic for the other handlers of Problem.
THEOREM InlinedHandlersAreAtomic ==
  ASSUME Outlined = {}
  PROVE  LocksSpec => []UnitHandlersExclude
<1>1. IInv => UnitHandlersExclude
  <2> SUFFICES ASSUME IInv, NEW t \in Threads, NEW u \in Threads,
                      t # u, Inside(t), Inside(u)
               PROVE  call[t].unit # call[u].unit
    BY DEF UnitHandlersExclude
  <2> QED
    BY InsideHoldDifferentLocks DEF LockOf
<1> QED
  BY InitIInv, NextIInv, <1>1, PTL DEF LocksSpec

\* The handlers of the registry of trackers lock the mutex of its unit.
LEMMA TrackerLock ==
  ASSUME NEW h \in Handlers, "trackers" \in h.changes \cup h.looksUp
  PROVE  LockOf(h) = "tracker"
<1>1. h \in TrackerHandlers
  BY DEF Handlers, ProblemHandlers, DomainHandlers, SetHandlers, PlannerHandlers,
         PrintHandlers, ReplaceHandlers, Exported
<1>2. h.unit = "tracker" /\ h.returns \in {"jint", "jobjectArray", "void"}
  BY <1>1 DEF TrackerHandlers, Exported
<1> QED
  BY <1>2 DEF LockOf, FirstUnit

\* In every build nobody looks into the registry of trackers while it changes.
THEOREM TrackersAreUndisturbed == LocksSpec => []TrackersUndisturbed
<1>1. IInv => TrackersUndisturbed
  <2> SUFFICES ASSUME IInv, NEW t \in Threads, NEW u \in Threads,
                      t # u, Inside(t), Inside(u), "trackers" \in call[t].changes,
                      "trackers" \in call[u].changes \cup call[u].looksUp
               PROVE  FALSE
    BY DEF TrackersUndisturbed, Undisturbed
  <2> QED
    BY InsideHoldDifferentLocks, TrackerLock
<1> QED
  BY InitIInv, NextIInv, <1>1, PTL DEF LocksSpec


-----------------------------------------------------------------------------
(* FlushCache. *)

SameLock == \A h \in Raisers : LockOf(h) = LockOf(Flusher)

\* t is in a handler that fills or flushes the cache.
UsesCache(t) == Inside(t) /\ call[t] \in Raisers \cup {Flusher}

CopiesAreFlushed ==
  \A t \in Threads :
    /\ stage[t] \in {"copied", "cleared"} => Flushing(t)
    /\ copied[t] # {} => stage[t] \in {"copied", "cleared"}
    /\ stage[t] = "copied" => copied[t] = cache
    /\ stage[t] = "cleared" => copied[t] \cap cache = {}

HistoryIsRight ==
  /\ cache \subseteq raised
  /\ \A t \in Threads : copied[t] \subseteq raised
  /\ \A i \in Items : delivered[i] > 0 => delivered[i] = 1 /\ i \in raised /\ i \notin cache
  /\ \A t \in Threads, i \in Items : i \in copied[t] => delivered[i] = 0

FlushIInv ==
  /\ FlushTypeOK /\ OwnerIsInside
  /\ CopiesAreFlushed /\ HistoryIsRight /\ NothingLost

-----------------------------------------------------------------------------

\* The assumption of the theorems holds for handlers of one unit when every
\* template call is inlined.
LEMMA InlinedUnitSharesLock ==
  ASSUME Outlined = {}, \A h \in Raisers : h.unit = Flusher.unit
  PROVE  SameLock
BY DEF SameLock, LockOf

\* Two threads that fill or flush the cache are never inside together.
LEMMA AloneInCache ==
  ASSUME SameLock, FlushIInv, NEW t \in Threads, NEW u \in Threads, UsesCache(t), UsesCache(u)
  PROVE  t = u
<1>1. /\ LockOf(call[t]) = LockOf(Flusher)
      /\ LockOf(call[u]) = LockOf(Flusher)
  BY DEF SameLock, UsesCache
<1>2. LockOf(Flusher) \in Units
  BY LockIsUnit, FlusherAssumption
<1> QED
  BY <1>1, <1>2 DEF FlushIInv, OwnerIsInside, UsesCache

\* So nobody else holds a copy while a thread is in one of these handlers.
LEMMA NoOtherCopy ==
  ASSUME SameLock, FlushIInv, NEW t \in Threads, NEW u \in Threads, UsesCache(t), t # u
  PROVE  copied[u] = {} /\ stage[u] \notin {"copied", "cleared"}
<1>1. ~ UsesCache(u)
  BY AloneInCache
<1> QED
  BY <1>1 DEF FlushIInv, CopiesAreFlushed, Flushing, Inside, UsesCache

\* What two threads have copied is in common only if they are one.
LEMMA CopiesAreApart ==
  ASSUME SameLock, FlushIInv
  PROVE  DeliveredOnce
<1>1. ASSUME NEW i \in Items, NEW t \in Threads, NEW u \in Threads, i \in copied[t], i \in copied[u]
      PROVE  t = u
  <2>1. UsesCache(t) /\ UsesCache(u)
    BY <1>1 DEF FlushIInv, CopiesAreFlushed, Flushing, Inside, UsesCache
  <2> QED
    BY <2>1, AloneInCache
<1>2. \A i \in Items : delivered[i] <= 1
  BY DEF FlushIInv, HistoryIsRight, FlushTypeOK
<1> QED
  BY <1>1, <1>2 DEF DeliveredOnce, FlushIInv, HistoryIsRight

-----------------------------------------------------------------------------

LEMMA InitFlushIInv == InitFlush => FlushIInv
<1> SUFFICES ASSUME InitFlush PROVE FlushIInv
  OBVIOUS
<1>1. LocksTypeOK /\ OwnerIsInside
  BY InitIInv DEF InitFlush, IInv
<1> QED
  BY <1>1 DEF FlushIInv, InitFlush, FlushTypeOK, CopiesAreFlushed, HistoryIsRight, NothingLost

LEMMA CallFlushIInv ==
  ASSUME FlushIInv, NEW t \in Threads, NEW h \in CalledHandlers, CallCache(t, h)
  PROVE  FlushIInv'
<1>1. h \in Handlers
  BY CalledHandlersAssumption
<1>2. LocksTypeOK' /\ OwnerIsInside'
  BY <1>1, CallIInv DEF FlushIInv, FlushTypeOK, IInv, CallCache
<1>3. CopiesAreFlushed'
  BY <1>2 DEF FlushIInv, FlushTypeOK, LocksTypeOK, CopiesAreFlushed, CallCache, Call, Flushing
<1> QED
  BY <1>2, <1>3 DEF FlushIInv, FlushTypeOK, HistoryIsRight, NothingLost, CallCache

LEMMA EnterFlushIInv ==
  ASSUME FlushIInv, NEW t \in Threads, EnterCache(t)
  PROVE  FlushIInv'
<1>1. LocksTypeOK' /\ OwnerIsInside'
  BY LockIInv DEF FlushIInv, FlushTypeOK, IInv, EnterCache
<1>2. stage[t] \notin {"copied", "cleared"} /\ copied[t] = {}
  BY DEF FlushIInv, CopiesAreFlushed, EnterCache, Lock, Flushing
<1>3. CopiesAreFlushed'
  BY <1>2 DEF FlushIInv, FlushTypeOK, LocksTypeOK, CopiesAreFlushed, EnterCache, Lock, Flushing
<1> QED
  BY <1>1, <1>3 DEF FlushIInv, FlushTypeOK, HistoryIsRight, NothingLost, EnterCache

LEMMA RaiseFlushIInv ==
  ASSUME SameLock, FlushIInv, NEW t \in Threads, NEW i \in Items, RaiseItem(t, i)
  PROVE  FlushIInv'
<1>1. LocksTypeOK' /\ OwnerIsInside'
  BY DEF FlushIInv, FlushTypeOK, LocksTypeOK, OwnerIsInside, RaiseItem, Inside
<1>2. UsesCache(t)
  BY DEF RaiseItem, UsesCache, Inside
<1>3. stage[t] \notin {"copied", "cleared"}
  BY FlusherAssumption DEF FlushIInv, CopiesAreFlushed, RaiseItem, Flushing
<1>4. \A u \in Threads : stage[u] \notin {"copied", "cleared"} /\ copied[u] = {}
  BY <1>2, <1>3, NoOtherCopy DEF FlushIInv, CopiesAreFlushed
<1>5. CopiesAreFlushed'
  BY <1>4 DEF CopiesAreFlushed, RaiseItem
<1>6. HistoryIsRight'
  BY <1>4 DEF FlushIInv, HistoryIsRight, RaiseItem
<1>7. NothingLost'
  BY DEF FlushIInv, NothingLost, RaiseItem
<1> QED
  BY <1>1, <1>5, <1>6, <1>7 DEF FlushIInv, FlushTypeOK, RaiseItem

LEMMA CopyFlushIInv ==
  ASSUME SameLock, FlushIInv, NEW t \in Threads, CopyCache(t)
  PROVE  FlushIInv'
<1>1. LocksTypeOK' /\ OwnerIsInside'
  BY DEF FlushIInv, FlushTypeOK, LocksTypeOK, OwnerIsInside, CopyCache, Inside
<1>2. UsesCache(t)
  BY DEF CopyCache, Flushing, UsesCache, Inside
<1>3. \A u \in Threads \ {t} : stage[u] \notin {"copied", "cleared"} /\ copied[u] = {}
  BY <1>2, NoOtherCopy
<1>4. copied[t] = {}
  BY DEF FlushIInv, CopiesAreFlushed, CopyCache
<1>5. FlushTypeOK'
  BY <1>1 DEF FlushIInv, FlushTypeOK, CopyCache
<1>6. CopiesAreFlushed'
  BY <1>3 DEF FlushIInv, FlushTypeOK, CopiesAreFlushed, CopyCache, Flushing
<1>7. HistoryIsRight'
  BY DEF FlushIInv, FlushTypeOK, HistoryIsRight, CopyCache
<1>8. NothingLost'
  BY <1>4 DEF FlushIInv, FlushTypeOK, NothingLost, CopyCache
<1> QED
  BY <1>1, <1>5, <1>6, <1>7, <1>8 DEF FlushIInv

LEMMA ClearFlushIInv ==
  ASSUME SameLock, FlushIInv, NEW t \in Threads, ClearCache(t)
  PROVE  FlushIInv'
<1>1. LocksTypeOK' /\ OwnerIsInside'
  BY DEF FlushIInv, FlushTypeOK, LocksTypeOK, OwnerIsInside, ClearCache, Inside
<1>2. UsesCache(t) /\ copied[t] = cache
  BY DEF FlushIInv, CopiesAreFlushed, ClearCache, Flushing, UsesCache, Inside
<1>3. \A u \in Threads \ {t} : stage[u] \notin {"copied", "cleared"} /\ copied[u] = {}
  BY <1>2, NoOtherCopy
<1>4. FlushTypeOK'
  BY <1>1 DEF FlushIInv, FlushTypeOK, ClearCache
<1>5. CopiesAreFlushed'
  BY <1>3 DEF FlushIInv, FlushTypeOK, CopiesAreFlushed, ClearCache, Flushing
<1>6. HistoryIsRight'
  BY DEF FlushIInv, HistoryIsRight, ClearCache
<1>7. NothingLost'
  BY <1>2 DEF FlushIInv, NothingLost, ClearCache
<1> QED
  BY <1>1, <1>4, <1>5, <1>6, <1>7 DEF FlushIInv

LEMMA ReturnArrayFlushIInv ==
  ASSUME FlushIInv, SameLock, NEW t \in Threads, ReturnArray(t)
  PROVE  FlushIInv'
<1>1. LocksTypeOK' /\ OwnerIsInside'
  BY ReturnIInv DEF FlushIInv, FlushTypeOK, IInv, ReturnArray
<1>2. UsesCache(t) /\ copied[t] \cap cache = {}
  BY DEF FlushIInv, CopiesAreFlushed, ReturnArray, Flushing, UsesCache, Inside
<1>3. \A u \in Threads \ {t} : stage[u] \notin {"copied", "cleared"} /\ copied[u] = {}
  BY <1>2, NoOtherCopy
<1>4. FlushTypeOK'
  BY <1>1 DEF FlushIInv, FlushTypeOK, ReturnArray
<1>5. CopiesAreFlushed'
  BY <1>3 DEF FlushIInv, FlushTypeOK, CopiesAreFlushed, ReturnArray
<1>6. HistoryIsRight'
  <2>1. \A i \in Items : i \in copied[t] => delivered[i] = 0 /\ delivered'[i] = 1 /\ i \in raised
    BY DEF FlushIInv, FlushTypeOK, HistoryIsRight, ReturnArray
  <2>2. \A i \in Items : i \notin copied[t] => delivered'[i] = delivered[i]
    BY DEF FlushIInv, FlushTypeOK, ReturnArray
  <2>3. \A u \in Threads : copied'[u] = {}
    BY <1>3 DEF FlushIInv, FlushTypeOK, ReturnArray
  <2>4. cache' = cache /\ raised' = raised
    BY DEF ReturnArray
  <2>5. \A i \in Items : delivered'[i] > 0 => delivered'[i] = 1 /\ i \in raised /\ i \notin cache
    BY <1>2, <2>1, <2>2 DEF FlushIInv, HistoryIsRight
  <2> QED
    BY <2>3, <2>4, <2>5 DEF FlushIInv, HistoryIsRight
<1>7. NothingLost'
  BY <1>3 DEF FlushIInv, FlushTypeOK, NothingLost, HistoryIsRight, ReturnArray
<1> QED
  BY <1>1, <1>4, <1>5, <1>6, <1>7 DEF FlushIInv

LEMMA ReturnOtherFlushIInv ==
  ASSUME FlushIInv, NEW t \in Threads, ReturnOther(t)
  PROVE  FlushIInv'
<1>1. LocksTypeOK' /\ OwnerIsInside'
  BY ReturnIInv DEF FlushIInv, FlushTypeOK, IInv, ReturnOther
<1>2. stage[t] \notin {"copied", "cleared"} /\ copied[t] = {}
  BY FlusherAssumption DEF FlushIInv, CopiesAreFlushed, ReturnOther, Flushing
<1>3. CopiesAreFlushed'
  BY <1>2 DEF FlushIInv, FlushTypeOK, LocksTypeOK, CopiesAreFlushed, ReturnOther, Return, Flushing
<1> QED
  BY <1>1, <1>3 DEF FlushIInv, FlushTypeOK, HistoryIsRight, NothingLost, ReturnOther

LEMMA StepFlushIInv ==
  ASSUME SameLock, FlushIInv, [NextFlush]_flushVars
  PROVE  FlushIInv'
<1>1. CASE UNCHANGED flushVars
  BY <1>1 DEF flushVars, FlushIInv, FlushTypeOK, LocksTypeOK, OwnerIsInside, Inside,
              CopiesAreFlushed, Flushing, HistoryIsRight, NothingLost
<1>2. CASE NextFlush
  BY <1>2, CallFlushIInv, EnterFlushIInv, RaiseFlushIInv, CopyFlushIInv, ClearFlushIInv,
     ReturnArrayFlushIInv, ReturnOtherFlushIInv DEF NextFlush
<1> QED
  BY <1>1, <1>2

LEMMA FlushIInvHolds ==
  ASSUME SameLock
  PROVE  FlushSpec => []FlushIInv
<1>1. FlushIInv /\ [NextFlush]_flushVars => FlushIInv'
  BY StepFlushIInv
<1> QED
  BY <1>1, InitFlushIInv, PTL DEF FlushSpec

-----------------------------------------------------------------------------

\* Handlers of a cache take and leave mutexes as all handlers do.
LEMMA FlushStepLocks == [NextFlush]_flushVars => [NextLocks]_lockVars
<1> SUFFICES ASSUME [NextFlush]_flushVars PROVE [NextLocks]_lockVars
  OBVIOUS
<1>1. ASSUME NEW t \in Threads, NEW h \in CalledHandlers, CallCache(t, h)
      PROVE  NextLocks
  <2>1. h \in Handlers
    BY CalledHandlersAssumption
  <2> QED
    BY <1>1, <2>1 DEF CallCache, NextLocks
<1>2. ASSUME NEW t \in Threads, EnterCache(t) \/ ReturnArray(t) \/ ReturnOther(t)
      PROVE  NextLocks
  BY <1>2 DEF EnterCache, ReturnArray, ReturnOther, NextLocks
<1>3. ASSUME NEW t \in Threads,
             CopyCache(t) \/ ClearCache(t) \/ \E i \in Items : RaiseItem(t, i)
      PROVE  UNCHANGED lockVars
  BY <1>3 DEF CopyCache, ClearCache, RaiseItem, lockVars
<1>4. CASE UNCHANGED flushVars
  BY <1>4 DEF flushVars, lockVars
<1> QED
  BY <1>1, <1>2, <1>3, <1>4 DEF NextFlush

\* What the theorems of Mutexes say holds of the handlers of a cache too.
THEOREM FlushImplementsLocks == FlushSpec => LocksSpec
<1>1. InitFlush => InitLocks
  BY DEF InitFlush
<1> QED
  BY <1>1, FlushStepLocks, PTL DEF FlushSpec, LocksSpec

\* The types do not depend on who locks what.
LEMMA StepFlushTypes ==
  ASSUME FlushTypeOK, LocksTypeOK', [NextFlush]_flushVars
  PROVE  FlushTypeOK'
<1>1. ASSUME NEW t \in Threads, NEW h \in CalledHandlers, CallCache(t, h)
      PROVE  FlushTypeOK'
  BY <1>1 DEF CallCache, FlushTypeOK
<1>2. ASSUME NEW t \in Threads, EnterCache(t) PROVE FlushTypeOK'
  BY <1>2 DEF EnterCache, FlushTypeOK
<1>3. ASSUME NEW t \in Threads, NEW i \in Items, RaiseItem(t, i) PROVE FlushTypeOK'
  BY <1>3 DEF RaiseItem, FlushTypeOK
<1>4. ASSUME NEW t \in Threads, CopyCache(t) PROVE FlushTypeOK'
  BY <1>4 DEF CopyCache, FlushTypeOK
<1>5. ASSUME NEW t \in Threads, ClearCache(t) PROVE FlushTypeOK'
  BY <1>5 DEF ClearCache, FlushTypeOK
<1>6. ASSUME NEW t \in Threads, ReturnArray(t) PROVE FlushTypeOK'
  <2>1. \A i \in Items : delivered[i] + (IF i \in copied[t] THEN 1 ELSE 0) \in Nat
    BY DEF FlushTypeOK
  <2>2. delivered' \in [Items -> Nat]
    BY <1>6, <2>1 DEF ReturnArray
  <2> QED
    BY <1>6, <2>2 DEF ReturnArray, FlushTypeOK
<1>7. ASSUME NEW t \in Threads, ReturnOther(t) PROVE FlushTypeOK'
  BY <1>7 DEF ReturnOther, FlushTypeOK
<1>8. CASE UNCHANGED flushVars
  BY <1>8 DEF flushVars, FlushTypeOK
<1> QED
  BY <1>1, <1>2, <1>3, <1>4, <1>5, <1>6, <1>7, <1>8 DEF NextFlush

\* A flush keeps the types of the cache, the copies and the history, whichever
\* mutexes its handlers lock.
THEOREM FlushKeepsTypes == FlushSpec => []FlushTypeOK
<1>1. FlushSpec => []LocksTypeOK
  BY FlushImplementsLocks, MutexesAreSound, PTL
<1>2. InitFlush /\ LocksTypeOK => FlushTypeOK
  BY DEF InitFlush, FlushTypeOK
<1>3. FlushTypeOK /\ LocksTypeOK' /\ [NextFlush]_flushVars => FlushTypeOK'
  BY StepFlushTypes
<1> QED
  BY <1>1, <1>2, <1>3, PTL DEF FlushSpec

\* A flush returns what was put in the cache since the last flush, all of it:
\* what was put in is in the cache, copied by a flush that runs, or returned.
THEOREM FlushLosesNothing ==
  ASSUME SameLock
  PROVE  FlushSpec => []NothingLost
<1>1. FlushIInv => NothingLost
  BY DEF FlushIInv
<1> QED
  BY <1>1, FlushIInvHolds, PTL

\* And no other flush returns it again.
THEOREM FlushReturnsOnce ==
  ASSUME SameLock
  PROVE  FlushSpec => []DeliveredOnce
<1>1. FlushIInv => DeliveredOnce
  BY CopiesAreApart
<1> QED
  BY <1>1, FlushIInvHolds, PTL
-----------------------------------------------------------------------------
(* Lookups. *)

\* A thread is somewhere in the protected function exactly while it is inside.
ProgressInside == \A t \in Threads : progress[t] # "none" <=> Inside(t)

CallsAreOwned ==
  \A t \in Threads : pc[t] # "idle" /\ Confined(arg[t]) => Owner[arg[t]] = t

\* What a call was made with stays in its registries until the call returns.
ObjectsStay ==
  \A t \in Threads : pc[t] # "idle" /\ Confined(arg[t]) =>
    \A r \in call[t].looksUp : arg[t] \in alive[r]

LInv ==
  /\ LookupsTypeOK /\ OwnerIsInside /\ ProgressInside /\ CallsAreOwned
  /\ OwnPointersAreValid /\ ObjectsStay

-----------------------------------------------------------------------------

LEMMA LInvIsIInv == LInv => IInv
BY DEF LInv, IInv, LookupsTypeOK

LEMMA HandlersChangeRegistries ==
  ASSUME NEW h \in Handlers
  PROVE  h.changes \subseteq Registries
BY DEF Handlers, ProblemHandlers, DomainHandlers, SetHandlers, TrackerHandlers,
       PlannerHandlers, PrintHandlers, ReplaceHandlers, Exported, Registries

\* All handlers that change a registry are in one unit.
LEMMA RegistryHasOneUnit ==
  ASSUME NEW h \in Handlers, NEW g \in Handlers, NEW r \in h.changes, r \in g.changes
  PROVE  h.unit = g.unit
<1> DEFINE UnitOf(x) == CASE x = "problems" -> "problem" [] x = "domains" -> "domain"
                          [] x = "sets" -> "sets" [] x = "trackers" -> "tracker"
<1>1. \A f \in Handlers : \A x \in f.changes : f.unit = UnitOf(x)
  BY DEF Handlers, ProblemHandlers, DomainHandlers, SetHandlers, TrackerHandlers,
         PlannerHandlers, PrintHandlers, ReplaceHandlers, Exported
<1> QED
  BY <1>1

\* While a thread is inside, nobody else changes a registry of its unit.
LEMMA OwnRegistryIsQuiet ==
  ASSUME Outlined = {}, LInv, NEW t \in Threads, NEW u \in Threads, t # u, Inside(t), Inside(u),
         NEW r \in OwnRegistries(call[t].unit)
  PROVE  r \notin call[u].changes
<1>1. call[t] \in Handlers /\ call[u] \in Handlers /\ call[t].unit # call[u].unit
  BY InsideHoldDifferentLocks, LInvIsIInv DEF LockOf
<1>2. PICK h \in Handlers : h.unit = call[t].unit /\ r \in h.changes
  BY DEF OwnRegistries
<1> QED
  BY <1>1, <1>2, RegistryHasOneUnit

\* A registry that t changes is changed by nobody else.
LEMMA ChangesAreAlone ==
  ASSUME Outlined = {}, LInv, NEW t \in Threads, progress[t] = "changing",
         NEW r \in call[t].changes
  PROVE  ~ BeingChanged(t, r)
<1>1. call[t] \in Handlers
  BY DEF LInv, LookupsTypeOK, LocksTypeOK
<1>2. r \in OwnRegistries(call[t].unit)
  BY <1>1 DEF OwnRegistries
<1>3. \A u \in Threads : progress[u] = "changing" => Inside(u)
  BY DEF LInv, ProgressInside
<1> QED
  BY <1>2, <1>3, OwnRegistryIsQuiet DEF BeingChanged

-----------------------------------------------------------------------------

\* Handlers that look objects up take and leave mutexes as all handlers do.
LEMMA LookupsStepLocks == [NextLookups]_lookupVars => [NextLocks]_lockVars
<1> SUFFICES ASSUME [NextLookups]_lookupVars PROVE [NextLocks]_lockVars
  OBVIOUS
<1>1. ASSUME NEW t \in Threads, NEW h \in UsedHandlers, NEW x \in Objects, CallOn(t, h, x)
      PROVE  NextLocks
  BY <1>1, UsedHandlersAssumption DEF CallOn, NextLocks
<1>2. ASSUME NEW t \in Threads, Enter(t) \/ Leave(t)
      PROVE  NextLocks
  BY <1>2 DEF Enter, Leave, NextLocks
<1>3. ASSUME NEW t \in Threads, Find(t) \/ BeginChange(t) \/ EndChange(t)
      PROVE  UNCHANGED lockVars
  BY <1>3 DEF Find, BeginChange, EndChange, lockVars
<1>4. CASE UNCHANGED lookupVars
  BY <1>4 DEF lookupVars, lockVars
<1> QED
  BY <1>1, <1>2, <1>3, <1>4 DEF NextLookups

\* What the theorems of Mutexes say holds of handlers that look objects up too.
THEOREM LookupsImplementLocks == LookupsSpec => LocksSpec
<1>1. InitLookups => InitLocks
  BY DEF InitLookups
<1> QED
  BY <1>1, LookupsStepLocks, PTL DEF LookupsSpec, LocksSpec

LEMMA StepLookupTypes ==
  ASSUME LookupsTypeOK, LocksTypeOK', [NextLookups]_lookupVars
  PROVE  LookupsTypeOK'
<1>1. ASSUME NEW t \in Threads, NEW h \in UsedHandlers, NEW x \in Objects, CallOn(t, h, x)
      PROVE  LookupsTypeOK'
  BY <1>1 DEF CallOn, LookupsTypeOK
<1>2. ASSUME NEW t \in Threads, Enter(t) \/ Leave(t) PROVE LookupsTypeOK'
  BY <1>2 DEF Enter, Leave, LookupsTypeOK
<1>3. ASSUME NEW t \in Threads, Find(t) PROVE LookupsTypeOK'
  BY <1>3 DEF Find, LookupsTypeOK
<1>4. ASSUME NEW t \in Threads, BeginChange(t) \/ EndChange(t) PROVE LookupsTypeOK'
  BY <1>4 DEF BeginChange, EndChange, LookupsTypeOK
<1>5. CASE UNCHANGED lookupVars
  BY <1>5 DEF lookupVars, LookupsTypeOK
<1> QED
  BY <1>1, <1>2, <1>3, <1>4, <1>5 DEF NextLookups

\* Calls, registries and the progress of each handler keep their types in every
\* build, even where two threads change one registry at once.
THEOREM LookupsKeepTypes == LookupsSpec => []LookupsTypeOK
<1>1. LookupsSpec => []LocksTypeOK
  BY LookupsImplementLocks, MutexesAreSound, PTL
<1>2. InitLookups /\ LocksTypeOK => LookupsTypeOK
  BY DEF InitLookups, LookupsTypeOK
<1>3. LookupsTypeOK /\ LocksTypeOK' /\ [NextLookups]_lookupVars => LookupsTypeOK'
  BY StepLookupTypes
<1> QED
  BY <1>1, <1>2, <1>3, PTL DEF LookupsSpec

-----------------------------------------------------------------------------

LEMMA InitLInv == InitLookups => LInv
<1> SUFFICES ASSUME InitLookups PROVE LInv
  OBVIOUS
<1>1. IInv
  BY InitIInv DEF InitLookups
<1> QED
  BY <1>1 DEF InitLookups, InitLocks, LInv, IInv, LookupsTypeOK, ProgressInside, Inside,
              CallsAreOwned, OwnPointersAreValid, ObjectsStay, HasPointer

\* Steps that change no registry and give no pointer.
LEMMA QuietStep ==
  ASSUME LInv, IInv', LookupsTypeOK', ProgressInside', CallsAreOwned', ObjectsStay',
         UNCHANGED alive,
         \A t \in Threads : progress'[t] = "using" =>
           progress[t] = "using" /\ UNCHANGED <<call[t], arg[t]>>
  PROVE  LInv'
BY DEF LInv, IInv, OwnPointersAreValid, HasPointer

LEMMA CallLInv ==
  ASSUME LInv, NEW t \in Threads, NEW h \in Handlers, NEW x \in Objects, CallOn(t, h, x)
  PROVE  LInv'
<1>1. IInv'
  BY CallIInv, LInvIsIInv DEF CallOn
<1>2. LookupsTypeOK'
  BY <1>1 DEF CallOn, LInv, LookupsTypeOK, IInv
<1>3. ProgressInside' /\ progress[t] = "none"
  BY DEF CallOn, Call, LInv, LookupsTypeOK, LocksTypeOK, ProgressInside, Inside
<1>4. CallsAreOwned' /\ ObjectsStay'
  BY OwnerAssumption DEF CallOn, Call, LInv, LookupsTypeOK, LocksTypeOK, CallsAreOwned,
                         ObjectsStay, Confined
<1>5. \A u \in Threads : progress'[u] = "using" =>
        progress[u] = "using" /\ UNCHANGED <<call[u], arg[u]>>
  BY <1>3 DEF CallOn, Call, LInv, LookupsTypeOK, LocksTypeOK
<1> QED
  BY <1>1, <1>2, <1>3, <1>4, <1>5, QuietStep DEF CallOn

LEMMA EnterLInv ==
  ASSUME LInv, NEW t \in Threads, Enter(t)
  PROVE  LInv'
<1>1. IInv'
  BY LockIInv, LInvIsIInv DEF Enter
<1>2. LookupsTypeOK'
  BY <1>1 DEF Enter, LInv, LookupsTypeOK, IInv
<1>3. ProgressInside' /\ CallsAreOwned' /\ ObjectsStay'
  BY DEF Enter, Lock, LInv, LookupsTypeOK, LocksTypeOK, ProgressInside, Inside,
         CallsAreOwned, ObjectsStay, Confined
<1>4. \A u \in Threads : progress'[u] = "using" =>
        progress[u] = "using" /\ UNCHANGED <<call[u], arg[u]>>
  BY DEF Enter, Lock, LInv, LookupsTypeOK
<1> QED
  BY <1>1, <1>2, <1>3, <1>4, QuietStep DEF Enter

LEMMA LeaveLInv ==
  ASSUME LInv, NEW t \in Threads, Leave(t)
  PROVE  LInv'
<1>1. IInv'
  BY ReturnIInv, LInvIsIInv DEF Leave
<1>2. LookupsTypeOK'
  BY <1>1 DEF Leave, LInv, LookupsTypeOK, IInv
<1>3. ProgressInside' /\ CallsAreOwned' /\ ObjectsStay'
  BY DEF Leave, Return, LInv, LookupsTypeOK, LocksTypeOK, ProgressInside, Inside,
         CallsAreOwned, ObjectsStay, Confined
<1>4. \A u \in Threads : progress'[u] = "using" =>
        progress[u] = "using" /\ UNCHANGED <<call[u], arg[u]>>
  BY DEF Leave, Return, LInv, LookupsTypeOK
<1> QED
  BY <1>1, <1>2, <1>3, <1>4, QuietStep DEF Leave

\* What the steps inside a handler leave alone.
LEMMA InnerStep ==
  ASSUME LInv, NEW t \in Threads, UNCHANGED <<pc, call, owner, arg>>, Inside(t),
         NEW q \in {"using", "gaveUp", "changing", "changed"},
         progress' = [progress EXCEPT ![t] = q]
  PROVE  /\ IInv' /\ ProgressInside' /\ CallsAreOwned'
         /\ alive' \in [Registries -> SUBSET Objects] => LookupsTypeOK'
BY DEF LInv, IInv, LookupsTypeOK, LocksTypeOK, OwnerIsInside, ProgressInside, Inside, CallsAreOwned

LEMMA FindLInv ==
  ASSUME Outlined = {}, LInv, NEW t \in Threads, Find(t)
  PROVE  LInv'
<1>1. Inside(t)
  BY DEF Find, LInv, ProgressInside
<1>2. PICK found \in Answers(t) :
        progress' = [progress EXCEPT ![t] = IF found THEN "using" ELSE "gaveUp"]
  BY DEF Find
<1>3. IInv' /\ ProgressInside' /\ CallsAreOwned' /\ LookupsTypeOK'
  <2>1. alive' \in [Registries -> SUBSET Objects]
    BY DEF Find, LInv, LookupsTypeOK
  <2> QED
    BY <1>1, <1>2, <2>1, InnerStep DEF Find
<1>4. \A u \in Threads : progress[u] = "changing" => Inside(u)
  BY DEF LInv, ProgressInside
<1>5. ASSUME NEW r \in OwnRegistries(call[t].unit)
      PROVE  ~ BeingChanged(t, r)
  BY <1>1, <1>4, <1>5, OwnRegistryIsQuiet DEF BeingChanged
<1>6. ASSUME NEW r \in OwnRegistries(call[t].unit), HasPointer(t, r)'
      PROVE  arg[t] \in alive[r]
  <2>1. found /\ r \in call[t].looksUp
    BY <1>2, <1>6 DEF Find, HasPointer, LInv, LookupsTypeOK
  <2> QED
    BY <1>5, <2>1 DEF Answers
<1>7. OwnPointersAreValid'
  BY <1>2, <1>6 DEF Find, LInv, LookupsTypeOK, OwnPointersAreValid, HasPointer
<1>8. ObjectsStay'
  BY DEF Find, LInv, ObjectsStay
<1> QED
  BY <1>3, <1>7, <1>8 DEF LInv, IInv

LEMMA BeginChangeLInv ==
  ASSUME LInv, NEW t \in Threads, BeginChange(t)
  PROVE  LInv'
<1>1. Inside(t)
  BY DEF BeginChange, LInv, ProgressInside
<1>2. IInv' /\ ProgressInside' /\ CallsAreOwned' /\ LookupsTypeOK'
  <2>1. alive' \in [Registries -> SUBSET Objects]
    BY DEF BeginChange, LInv, LookupsTypeOK
  <2> QED
    BY <1>1, <2>1, InnerStep DEF BeginChange
<1>3. ObjectsStay'
  BY DEF BeginChange, LInv, ObjectsStay
<1> QED
  BY <1>2, <1>3, QuietStep DEF BeginChange, LInv, LookupsTypeOK

\* No handler looks into a registry that it changes.
LEMMA ChangesNotLookedUp ==
  ASSUME NEW h \in Handlers
  PROVE  h.changes \cap h.looksUp = {}
BY DEF Handlers, ProblemHandlers, DomainHandlers, SetHandlers, TrackerHandlers,
       PlannerHandlers, PrintHandlers, ReplaceHandlers, Exported

LEMMA EndChangeLInv ==
  ASSUME Outlined = {}, LInv, NEW t \in Threads, EndChange(t)
  PROVE  LInv'
<1>1. Inside(t) /\ call[t] \in Handlers
  BY DEF EndChange, LInv, ProgressInside, LookupsTypeOK, LocksTypeOK
<1>2. IInv' /\ ProgressInside' /\ CallsAreOwned' /\ LookupsTypeOK'
  BY <1>1, InnerStep DEF EndChange
<1>3. \A r \in Registries \ call[t].changes : alive'[r] = alive[r]
  BY DEF EndChange, Changed
<1>4. \A r \in call[t].changes :
        alive'[r] \in {alive[r] \cup {arg[t]}, alive[r] \ {arg[t]}}
  BY <1>1, ChangesAreAlone, HandlersChangeRegistries DEF EndChange, Changed
<1>5. OwnPointersAreValid'
  <2> SUFFICES ASSUME NEW u \in Threads, NEW r \in OwnRegistries(call[u].unit), HasPointer(u, r)'
               PROVE  arg[u] \in alive'[r]
    BY DEF EndChange, OwnPointersAreValid
  <2>1. u # t /\ HasPointer(u, r) /\ Inside(u)
    BY DEF EndChange, HasPointer, LInv, LookupsTypeOK, ProgressInside
  <2>2. r \notin call[t].changes
    BY <1>1, <2>1, OwnRegistryIsQuiet
  <2>3. r \in Registries
    BY HandlersChangeRegistries DEF OwnRegistries
  <2> QED
    BY <1>3, <2>1, <2>2, <2>3 DEF LInv, OwnPointersAreValid
<1>6. ObjectsStay'
  <2> SUFFICES ASSUME NEW u \in Threads, pc[u] # "idle", Confined(arg[u]),
                      NEW r \in call[u].looksUp
               PROVE  arg[u] \in alive'[r]
    BY DEF EndChange, ObjectsStay
  <2>1. arg[u] \in alive[r] /\ call[u] \in Handlers
    BY DEF LInv, ObjectsStay, LookupsTypeOK, LocksTypeOK
  <2>2. r \in Registries
    BY <2>1 DEF Handlers, ProblemHandlers, DomainHandlers, SetHandlers, TrackerHandlers,
                PlannerHandlers, PrintHandlers, ReplaceHandlers, Exported, Registries
  <2>3. CASE r \notin call[t].changes
    BY <1>3, <2>1, <2>2, <2>3
  <2>4. CASE r \in call[t].changes
    <3>1. u # t
      BY <2>1, <2>4, ChangesNotLookedUp
    <3>2. pc[t] # "idle" /\ Owner[arg[u]] = u
      BY <1>1 DEF LInv, CallsAreOwned, Inside
    <3>3. arg[t] # arg[u]
      BY <3>1, <3>2 DEF LInv, CallsAreOwned, Confined
    <3> QED
      BY <1>4, <2>1, <2>4, <3>3
  <2> QED
    BY <2>3, <2>4
<1> QED
  BY <1>2, <1>5, <1>6 DEF LInv, IInv

LEMMA NextLInv ==
  ASSUME Outlined = {}, LInv, [NextLookups]_lookupVars
  PROVE  LInv'
<1>1. CASE NextLookups
  BY <1>1, UsedHandlersAssumption, CallLInv, EnterLInv, FindLInv, BeginChangeLInv, EndChangeLInv,
     LeaveLInv DEF NextLookups
<1>2. CASE UNCHANGED lookupVars
  BY <1>2 DEF lookupVars, LInv, LookupsTypeOK, LocksTypeOK, OwnerIsInside, Inside, LockOf,
              ProgressInside, CallsAreOwned, ObjectsStay, OwnPointersAreValid, HasPointer
<1> QED
  BY <1>1, <1>2

-----------------------------------------------------------------------------

\* A handler never loses the object it works on to a dispose in another thread,
\* if the object is in the registry of the handler's own unit.
THEOREM OwnPointersStayGood ==
  ASSUME Outlined = {}
  PROVE  LookupsSpec => []OwnPointersAreValid
<1>1. LInv => OwnPointersAreValid
  BY DEF LInv
<1>2. LInv /\ [NextLookups]_lookupVars => LInv'
  BY NextLInv
<1> QED
  BY InitLInv, <1>1, <1>2, PTL DEF LookupsSpec

\* No handler ever loses an object that only its thread uses, though the
\* registries change under its hands.
THEOREM ConfinedPointersStayGood ==
  ASSUME Outlined = {}
  PROVE  LookupsSpec => []PointersAreValid
<1>1. LInv => PointersAreValid
  BY DEF LInv, ObjectsStay, PointersAreValid, HasPointer, ProgressInside, Inside
<1>2. LInv /\ [NextLookups]_lookupVars => LInv'
  BY NextLInv
<1> QED
  BY InitLInv, <1>1, <1>2, PTL DEF LookupsSpec

\* And a handler that looks only into its unit's registry finds its object if
\* and only if it is there.
THEOREM OwnCallsFindTheirObject ==
  ASSUME Outlined = {}
  PROVE  LookupsSpec => OwnCallsAreExact
<1> DEFINE Exact ==
      \A t \in Threads :
        call[t].looksUp \subseteq OwnRegistries(call[t].unit) /\ progress[t] = "entered" =>
          /\ progress'[t] = "using" => \A r \in call[t].looksUp : arg[t] \in alive[r]
          /\ progress'[t] = "gaveUp" => \E r \in call[t].looksUp : arg[t] \notin alive[r]
<1>1. ASSUME LInv, NEW t \in Threads, progress[t] = "entered",
             call[t].looksUp \subseteq OwnRegistries(call[t].unit), Find(t)
      PROVE  /\ progress'[t] = "using" => \A r \in call[t].looksUp : arg[t] \in alive[r]
             /\ progress'[t] = "gaveUp" => \E r \in call[t].looksUp : arg[t] \notin alive[r]
  <2>1. PICK found \in Answers(t) :
          progress' = [progress EXCEPT ![t] = IF found THEN "using" ELSE "gaveUp"]
    BY <1>1 DEF Find
  <2>2. progress'[t] = IF found THEN "using" ELSE "gaveUp"
    BY <1>1, <2>1 DEF LInv, LookupsTypeOK
  <2>3. Inside(t) /\ \A u \in Threads : progress[u] = "changing" => Inside(u)
    BY <1>1 DEF LInv, ProgressInside
  <2>4. \A r \in call[t].looksUp : ~ BeingChanged(t, r)
    BY <1>1, <2>3, OwnRegistryIsQuiet DEF BeingChanged
  <2>5. found => \A r \in call[t].looksUp : arg[t] \in alive[r]
    BY <2>4 DEF Answers
  <2>6. ~ found => \E r \in call[t].looksUp : arg[t] \notin alive[r]
    BY <2>4 DEF Answers
  <2> QED
    BY <2>2, <2>5, <2>6
<1>2. ASSUME LInv, [NextLookups]_lookupVars, NEW t \in Threads, progress[t] = "entered", ~ Find(t)
      PROVE  progress'[t] \notin {"using", "gaveUp"}
  <2>1. CASE UNCHANGED lookupVars
    BY <1>2, <2>1 DEF lookupVars
  <2>2. CASE NextLookups
    BY <1>2, <2>2 DEF NextLookups, CallOn, Enter, Find, BeginChange, EndChange, Leave,
                      LInv, LookupsTypeOK
  <2> QED
    BY <1>2, <2>1, <2>2
<1>3. LInv /\ [NextLookups]_lookupVars => [Exact]_lookupVars
  BY <1>1, <1>2
<1>4. LInv /\ [NextLookups]_lookupVars => LInv'
  BY NextLInv
<1> QED
  BY InitLInv, <1>3, <1>4, PTL DEF LookupsSpec, OwnCallsAreExact
=============================================================================
