----------------------------- MODULE MissingKey -----------------------------
(***************************************************************************)
(* The loop of findMissingKey, one map entry per step: it walks the keys   *)
(* of a registry in increasing order and returns the first hole.  Module   *)
(* Construction says who calls it.                                         *)
(***************************************************************************)
EXTENDS RegistryIds

VARIABLES
  keys,        \* the keys of pIdToObj, fixed while the loop runs
  rest,        \* the keys the iterator has not reached yet
  currentId,   \* the local variable of that name
  result       \* the value returned, 0 while there is none

vars == <<keys, rest, currentId, result>>

Init == keys = {} /\ rest = {} /\ currentId = 0 /\ result = 0

-----------------------------------------------------------------------------
(* Mutants of the actions below. *)

IsGapOffByOne(k) == k > currentId + 2

AdvanceWithoutCurrent(k) ==
  /\ rest' = rest \ {k}
  /\ UNCHANGED <<keys, currentId, result>>

ReturnGapSkipsOne ==
  /\ result' = currentId + 2
  /\ UNCHANGED <<keys, rest, currentId>>

ExhaustedSkipsOne ==
  /\ rest = {} /\ result = 0
  /\ result' = currentId + 2
  /\ UNCHANGED <<keys, rest, currentId>>

-----------------------------------------------------------------------------

\* A call of the function for a map with these keys.
Begin(taken) == keys' = taken /\ rest' = taken /\ currentId' = 0 /\ result' = 0

\* k is the entry the iterator stands on.
IsNext(k) == result = 0 /\ k \in rest /\ \A j \in rest : k <= j

\* The key visited leaves a hole after the previous one.
IsGap(k) == k > currentId + 1

\* Return the id that follows the previous key.
ReturnGap ==
  /\ result' = currentId + 1
  /\ UNCHANGED <<keys, rest, currentId>>

\* Remember the key and go to the next entry.
Advance(k) ==
  /\ currentId' = k
  /\ rest' = rest \ {k}
  /\ UNCHANGED <<keys, result>>

Visit(k) == IsNext(k) /\ IF IsGap(k) THEN ReturnGap ELSE Advance(k)

\* No hole in the whole map: return the id after the last key.
Exhausted ==
  /\ rest = {} /\ result = 0
  /\ result' = currentId + 1
  /\ UNCHANGED <<keys, rest, currentId>>

Step == (\E k \in Ids : Visit(k)) \/ Exhausted

Next == (\E taken \in SUBSET Ids : Begin(taken)) \/ Step

Spec == Init /\ [][Next]_vars

-----------------------------------------------------------------------------

TypeOK ==
  /\ keys \in SUBSET Ids
  /\ rest \in SUBSET keys
  /\ currentId \in 0 .. MaxId
  /\ result \in 0 .. MaxId + 1

\* Loop invariant of findMissingKey: the entries behind the iterator are
\* exactly 1..currentId, the entries ahead of it are larger.
Visited ==
  /\ \A k \in rest : k > currentId
  /\ \A j \in Ids : j <= currentId <=> j \in keys \ rest

\* What findMissingKey promises to newProblem, newDomain, newSetOfInferences
\* and newGoalsRemovedTracker: the id it returns is free, and every smaller
\* id is taken.
ReturnsMissingKey == result # 0 => IsMissingKey(keys, result)
=============================================================================
