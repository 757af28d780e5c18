------------------------------ MODULE FlushCache ------------------------------
(***************************************************************************)
(* A cache that some handlers fill and a flush handler hands to Java and   *)
(* empties: the facts and the punctual facts of a problem (_flushFacts)    *)
(* and the removed goals of a tracker (flushGoalsRemoved).  A flush copies *)
(* the set into a Java array and then clears the set; whether a handler    *)
(* that fills the cache can run between the two depends on the mutexes     *)
(* that both lock.                                                         *)
(***************************************************************************)
EXTENDS Mutexes

CONSTANTS
  Raisers,    \* the handlers that fill the cache
  Flusher,    \* the handler that flushes it
  CalledHandlers, \* the handlers the clients call, these and others
  Items       \* each is put in the cache once, so that a loss can be seen

ASSUME RaisersAssumption == Raisers \subseteq Handlers
ASSUME FlusherAssumption == Flusher \in Handlers \ Raisers
ASSUME CalledHandlersAssumption ==
  Raisers \cup {Flusher} \subseteq CalledHandlers /\ CalledHandlers \subseteq Handlers

VARIABLES
  cache,      \* _factsAdded, _punctualFacts or goalsRemoved
  stage,      \* what the handler of each thread has done
  copied,     \* the Java array of each thread
  raised,     \* history: what was put in the cache
  delivered   \* history: how often each item was returned to Java

flushVars == <<pc, call, owner, cache, stage, copied, raised, delivered>>

InitFlush ==
  /\ InitLocks
  /\ cache = {} /\ raised = {}
  /\ stage = [t \in Threads |-> "none"]
  /\ copied = [t \in Threads |-> {}]
  /\ delivered = [i \in Items |-> 0]

-----------------------------------------------------------------------------

Flushing(t) == pc[t] = "inside" /\ call[t] = Flusher

EnterCache(t) ==
  /\ Lock(t)
  /\ stage' = [stage EXCEPT ![t] = "started"]
  /\ UNCHANGED <<cache, copied, raised, delivered>>

\* The callback of onFactsAdded, onPunctualFacts or onGoalsRemoved.  (That
\* onFactsRemoved takes a fact out of the cache again is in ProblemJni.)
RaiseItem(t, i) ==
  /\ pc[t] = "inside" /\ call[t] \in Raisers
  /\ i \notin raised
  /\ cache' = cache \cup {i} /\ raised' = raised \cup {i}
  /\ UNCHANGED <<pc, call, owner, stage, copied, delivered>>

\* Mutant of CopyCache: the set is cleared before it is copied.
CopyClearedCache(t) ==
  /\ Flushing(t) /\ stage[t] = "started"
  /\ stage' = [stage EXCEPT ![t] = "copied"]
  /\ cache' = {}
  /\ UNCHANGED <<pc, call, owner, copied, raised, delivered>>

\* The set is copied into a new Java array,
CopyCache(t) ==
  /\ Flushing(t) /\ stage[t] = "started"
  /\ stage' = [stage EXCEPT ![t] = "copied"]
  /\ copied' = [copied EXCEPT ![t] = cache]
  /\ UNCHANGED <<pc, call, owner, cache, raised, delivered>>

\* Mutant of ClearCache: the set is not cleared.
ClearNothing(t) ==
  /\ Flushing(t) /\ stage[t] = "copied"
  /\ stage' = [stage EXCEPT ![t] = "cleared"]
  /\ UNCHANGED <<pc, call, owner, cache, copied, raised, delivered>>

\* then cleared,
ClearCache(t) ==
  /\ Flushing(t) /\ stage[t] = "copied"
  /\ stage' = [stage EXCEPT ![t] = "cleared"]
  /\ cache' = {}
  /\ UNCHANGED <<pc, call, owner, copied, raised, delivered>>

\* and the array returned.
ReturnArray(t) ==
  /\ Flushing(t) /\ stage[t] = "cleared"
  /\ Return(t)
  /\ delivered' = [i \in Items |-> delivered[i] + (IF i \in copied[t] THEN 1 ELSE 0)]
  /\ copied' = [copied EXCEPT ![t] = {}]
  /\ stage' = [stage EXCEPT ![t] = "none"]
  /\ UNCHANGED <<cache, raised>>

ReturnOther(t) ==
  /\ call[t] # Flusher /\ Return(t)
  /\ stage' = [stage EXCEPT ![t] = "none"]
  /\ UNCHANGED <<cache, copied, raised, delivered>>

CallCache(t, h) ==
  /\ Call(t, h)
  /\ UNCHANGED <<cache, stage, copied, raised, delivered>>

NextFlush ==
  \E t \in Threads :
    \/ \E h \in CalledHandlers : CallCache(t, h)
    \/ EnterCache(t)
    \/ \E i \in Items : RaiseItem(t, i)
    \/ CopyCache(t) \/ ClearCache(t) \/ ReturnArray(t)
    \/ ReturnOther(t)

FlushSpec == InitFlush /\ [][NextFlush]_flushVars

-----------------------------------------------------------------------------

FlushTypeOK ==
  /\ LocksTypeOK
  /\ cache \subseteq Items /\ raised \subseteq Items
  /\ stage \in [Threads -> {"none", "started", "copied", "cleared"}]
  /\ copied \in [Threads -> SUBSET Items]
  /\ delivered \in [Items -> Nat]

\* What was put in the cache is still there, on its way to Java, or was
\* returned by a flush: no flush clears what it did not copy.
NothingLost ==
  \A i \in raised :
    i \in cache \/ delivered[i] > 0 \/ \E t \in Threads : i \in copied[t]

\* No two flushes return the same item: what one has copied is not copied again.
DeliveredOnce ==
  \A i \in Items :
    /\ delivered[i] <= 1
    /\ \A t, u \in Threads : i \in copied[t] \cap copied[u] => t = u
    /\ \A t \in Threads : i \in copied[t] => delivered[i] = 0
=============================================================================
