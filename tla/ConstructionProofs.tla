------------------------- MODULE ConstructionProofs -------------------------
(***************************************************************************)
(* Constructors, proved for any number of handles and threads and for a    *)
(* registry of any size.  Visited is the invariant of findMissingKey's     *)
(* loop; it is inductive together with the typing of the loop's variables. *)
(* Because the mutex is held, the keys the loop walks are those of the     *)
(* registry until the entry is made (KeysAreCurrent), so a constructor is  *)
(* one step for everybody else and what HandlesProofs shows holds here.    *)
(***************************************************************************)
EXTENDS Construction, HandlesProofs

LoopIInv == Loop!TypeOK /\ Visited /\ ReturnsMissingKey

LEMMA InitLoopIInv == Loop!Init => LoopIInv
BY MaxIdAssumption
   DEF Loop!Init, LoopIInv, Loop!TypeOK, Visited, Loop!Visited, ReturnsMissingKey,
       Loop!ReturnsMissingKey, Loop!Ids, Ids

\* Any call starts the loop where its invariant holds.
LEMMA BeginLoopIInv ==
  ASSUME NEW taken \in SUBSET Ids, Loop!Begin(taken)
  PROVE  LoopIInv'
BY MaxIdAssumption
   DEF Loop!Begin, LoopIInv, Loop!TypeOK, Visited, Loop!Visited, ReturnsMissingKey,
       Loop!ReturnsMissingKey, Loop!Ids, Ids

\* A hole below the visited key: currentId + 1 is free, 1..currentId is not.
LEMMA ReturnGapLoopIInv ==
  ASSUME NEW k \in Ids, LoopIInv, Loop!IsNext(k), Loop!IsGap(k), Loop!ReturnGap
  PROVE  LoopIInv'
<1> USE MaxIdAssumption DEF Ids, Loop!Ids
<1>1. Loop!TypeOK'
  BY DEF LoopIInv, Loop!TypeOK, Loop!IsNext, Loop!IsGap, Loop!ReturnGap
<1>2. Visited'
  BY DEF LoopIInv, Visited, Loop!Visited, Loop!ReturnGap
<1>3. currentId + 1 \in Ids /\ currentId + 1 \notin rest
  BY DEF LoopIInv, Loop!TypeOK, Loop!IsNext, Loop!IsGap
<1>4. currentId + 1 \notin keys
  BY <1>3 DEF LoopIInv, Loop!TypeOK, Visited, Loop!Visited
<1>5. \A j \in 1 .. currentId : j \in keys
  BY DEF LoopIInv, Loop!TypeOK, Visited, Loop!Visited
<1>6. ReturnsMissingKey'
  BY <1>4, <1>5 DEF LoopIInv, Loop!TypeOK, ReturnsMissingKey, Loop!ReturnsMissingKey,
     IsMissingKey, Loop!IsMissingKey, Loop!ReturnGap
<1> QED
  BY <1>1, <1>2, <1>6 DEF LoopIInv

\* No hole: the visited key is currentId + 1 and joins the keys behind.
LEMMA AdvanceLoopIInv ==
  ASSUME NEW k \in Ids, LoopIInv, Loop!IsNext(k), ~ Loop!IsGap(k), Loop!Advance(k)
  PROVE  LoopIInv'
<1> USE MaxIdAssumption DEF Ids, Loop!Ids
<1>1. Loop!TypeOK'
  BY DEF LoopIInv, Loop!TypeOK, Loop!IsNext, Loop!Advance
<1>2. k = currentId + 1
  BY DEF LoopIInv, Loop!TypeOK, Visited, Loop!Visited, Loop!IsNext, Loop!IsGap
<1>3. Visited'
  BY <1>2 DEF LoopIInv, Loop!TypeOK, Visited, Loop!Visited, Loop!IsNext, Loop!Advance
<1>4. ReturnsMissingKey'
  BY DEF LoopIInv, Loop!IsNext, ReturnsMissingKey, Loop!ReturnsMissingKey, Loop!Advance
<1> QED
  BY <1>1, <1>3, <1>4 DEF LoopIInv

\* The end of the map: the keys are exactly 1..currentId.
LEMMA ExhaustedLoopIInv ==
  ASSUME LoopIInv, Loop!Exhausted
  PROVE  LoopIInv'
<1> USE MaxIdAssumption DEF Ids, Loop!Ids
<1>1. Loop!TypeOK' /\ Visited'
  BY DEF LoopIInv, Loop!TypeOK, Visited, Loop!Visited, Loop!Exhausted
<1>2. \A j \in Ids : j \in keys <=> j <= currentId
  BY DEF LoopIInv, Visited, Loop!Visited, Loop!Exhausted
<1>3. IsMissingKey(keys, currentId + 1)
  BY <1>2 DEF LoopIInv, Loop!TypeOK, IsMissingKey
<1>4. ReturnsMissingKey'
  BY <1>3 DEF ReturnsMissingKey, Loop!ReturnsMissingKey, Loop!Exhausted, IsMissingKey,
     Loop!IsMissingKey
<1> QED
  BY <1>1, <1>4 DEF LoopIInv

LEMMA LoopStepIInv ==
  ASSUME LoopIInv, Loop!Step
  PROVE  LoopIInv'
BY ReturnGapLoopIInv, AdvanceLoopIInv, ExhaustedLoopIInv DEF Loop!Step, Loop!Visit, Loop!Ids, Ids

-----------------------------------------------------------------------------

\* While a constructor holds the mutex, the map it walks does not change.
KeysAreCurrent ==
  constructing # Nobody => id[constructing] = 0 /\ keys = Keys /\ Keys # Ids

CInv == ConstructionTypeOK /\ LoopIInv /\ KeysAreCurrent

LEMMA InitCInv == InitConstruction => CInv
<1> SUFFICES ASSUME InitConstruction PROVE CInv
  OBVIOUS
<1>1. TypeOK /\ LoopIInv
  BY InitIInv, InitLoopIInv DEF InitConstruction, IInv
<1> QED
  BY <1>1 DEF InitConstruction, CInv, LoopIInv, ConstructionTypeOK, KeysAreCurrent

\* Each step is a step of Handles, or none.
LEMMA BeginNewStutters ==
  ASSUME CInv, NEW h \in Handles, BeginNew(h)
  PROVE  UNCHANGED vars /\ CInv'
<1>1. UNCHANGED vars /\ TypeOK'
  BY DEF BeginNew, CInv, ConstructionTypeOK, vars, TypeOK
<1>2. LoopIInv'
  BY BeginLoopIInv DEF BeginNew, Keys
<1>3. KeysAreCurrent'
  BY <1>1 DEF BeginNew, Loop!Begin, KeysAreCurrent, Keys, vars
<1> QED
  BY <1>1, <1>2, <1>3 DEF CInv, ConstructionTypeOK, LoopIInv, BeginNew

LEMMA SearchIdStutters ==
  ASSUME CInv, SearchId
  PROVE  UNCHANGED vars /\ CInv'
<1>1. UNCHANGED <<vars, constructing>> /\ TypeOK' /\ LoopIInv'
  BY LoopStepIInv DEF SearchId, CInv, ConstructionTypeOK, vars, TypeOK
<1>2. keys' = keys
  BY DEF SearchId, Loop!Step, Loop!Visit, Loop!ReturnGap, Loop!Advance, Loop!Exhausted
<1>3. KeysAreCurrent'
  BY <1>1, <1>2 DEF CInv, KeysAreCurrent, Keys, vars
<1> QED
  BY <1>1, <1>3 DEF CInv, ConstructionTypeOK, LoopIInv

\* The id found is still the least free one.
LEMMA EndNewIsNew ==
  ASSUME CInv, EndNew
  PROVE  Next /\ CInv'
<1> DEFINE h == constructing
           k == result
<1>1. /\ h \in Handles /\ id[h] = 0 /\ keys = Keys /\ Keys # Ids /\ k # 0
      /\ constructing' = Nobody /\ UNCHANGED loopVars
  BY DEF EndNew, MutexIsFree, CInv, ConstructionTypeOK, KeysAreCurrent
<1>2. Free(k)
  BY <1>1 DEF CInv, LoopIInv, ReturnsMissingKey, Loop!ReturnsMissingKey, Loop!IsMissingKey,
     IsMissingKey, Free
<1>3. k \in Ids
  <2>1. k \in 1 .. MaxId + 1 /\ Keys \subseteq Ids /\ Keys # Ids
    BY <1>1 DEF CInv, LoopIInv, Loop!TypeOK, KeysAreCurrent, Keys
  <2>2. k = MaxId + 1 => Ids \subseteq Keys
    BY <1>2, MaxIdAssumption DEF Free, IsMissingKey, Ids
  <2>3. k # MaxId + 1
    BY <2>1, <2>2, Zenon
  <2> QED
    BY <2>1, <2>3, MaxIdAssumption DEF Ids
<1>4. New(h, k) \/ NewFails(h, k)
  BY <1>1, <1>2 DEF EndNew, New, NewFails
<1>5. Next
  BY <1>1, <1>3, <1>4 DEF Next
<1>6. TypeOK'
  BY <1>5, StepTypeOK DEF CInv, ConstructionTypeOK
<1> QED
  BY <1>1, <1>5, <1>6 DEF CInv, ConstructionTypeOK, LoopIInv, Loop!TypeOK, Visited,
     Loop!Visited, ReturnsMissingKey, Loop!ReturnsMissingKey, Loop!IsMissingKey,
     KeysAreCurrent, loopVars

\* A step that leaves the registry and the handles' ids alone, or is not taken
\* while a constructor runs, leaves the constructor alone.
LEMMA OtherStepCInv ==
  ASSUME CInv, Next, UNCHANGED <<constructing, loopVars>>,
         constructing # Nobody => registry' = registry /\ id'[constructing] = id[constructing]
  PROVE  CInv'
<1>1. TypeOK'
  BY StepTypeOK DEF CInv, ConstructionTypeOK
<1>2. LoopIInv'
  BY DEF CInv, LoopIInv, Loop!TypeOK, Visited, Loop!Visited, ReturnsMissingKey,
     Loop!ReturnsMissingKey, Loop!IsMissingKey, loopVars
<1>3. KeysAreCurrent'
  BY DEF CInv, KeysAreCurrent, Keys, loopVars
<1> QED
  BY <1>1, <1>2, <1>3 DEF CInv, ConstructionTypeOK, LoopIInv

LEMMA EraseCInv ==
  ASSUME CInv, NEW t \in Threads, Erase(t)
  PROVE  Next /\ CInv'
<1>1. Next /\ UNCHANGED <<constructing, loopVars>> /\ constructing = Nobody
  BY DEF Erase, MutexIsFree, Next
<1> QED
  BY <1>1, OtherStepCInv

LEMMA MarkCInv ==
  ASSUME CInv, NEW t \in Threads, Mark(t)
  PROVE  Next /\ CInv'
<1>1. Next /\ UNCHANGED <<constructing, loopVars, registry, id>>
  BY DEF Mark, MarkDisposed, Next
<1> QED
  BY <1>1, OtherStepCInv

LEMMA CheckCInv ==
  ASSUME CInv, NEW t \in Threads, NEW h \in Handles, CheckNotDisposed(t, h),
         UNCHANGED <<constructing, loopVars>>
  PROVE  Next /\ CInv'
<1>1. Next /\ UNCHANGED <<registry, id>>
  BY DEF CheckNotDisposed, Next
<1> QED
  BY <1>1, OtherStepCInv

LEMMA CollectCInv ==
  ASSUME CInv, NEW h \in Handles, Collect(h), UNCHANGED <<constructing, loopVars>>
  PROVE  Next /\ CInv'
<1>1. Next /\ registry' = registry /\ id' = [id EXCEPT ![h] = 0]
  BY DEF Collect, Next
<1>2. constructing # Nobody => id'[constructing] = id[constructing]
  BY <1>1 DEF CInv, ConstructionTypeOK, TypeOK, KeysAreCurrent
<1> QED
  BY <1>1, <1>2, OtherStepCInv

LEMMA NextCInv ==
  ASSUME CInv, [NextConstruction]_constructionVars
  PROVE  [Next]_vars /\ CInv'
<1>1. ASSUME NEW h \in Handles, BeginNew(h) PROVE [Next]_vars /\ CInv'
  BY <1>1, BeginNewStutters
<1>2. CASE SearchId
  BY <1>2, SearchIdStutters
<1>3. CASE EndNew
  BY <1>3, EndNewIsNew
<1>4. ASSUME NEW t \in Threads, Erase(t) \/ Mark(t) PROVE [Next]_vars /\ CInv'
  BY <1>4, EraseCInv, MarkCInv
<1>5. ASSUME NEW t \in Threads, NEW h \in Handles, CheckNotDisposed(t, h),
             UNCHANGED <<constructing, loopVars>>
      PROVE  [Next]_vars /\ CInv'
  BY <1>5, CheckCInv
<1>6. ASSUME NEW h \in Handles, Collect(h), UNCHANGED <<constructing, loopVars>>
      PROVE  [Next]_vars /\ CInv'
  BY <1>6, CollectCInv
<1>7. CASE UNCHANGED constructionVars
  BY <1>7 DEF constructionVars, vars, loopVars, CInv, ConstructionTypeOK, TypeOK, LoopIInv,
     Loop!TypeOK, Visited, Loop!Visited, ReturnsMissingKey, Loop!ReturnsMissingKey,
     Loop!IsMissingKey, KeysAreCurrent, Keys
<1> QED
  BY <1>1, <1>2, <1>3, <1>4, <1>5, <1>6, <1>7 DEF NextConstruction

LEMMA CInvHolds == ConstructionSpec => []CInv
<1>1. CInv /\ [NextConstruction]_constructionVars => CInv'
  BY NextCInv
<1> QED
  BY InitCInv, <1>1, PTL DEF ConstructionSpec

\* Handles, the registry and the loop keep their types.
THEOREM ConstructionKeepsTypes == ConstructionSpec => []ConstructionTypeOK
<1>1. CInv => ConstructionTypeOK
  BY DEF CInv
<1> QED
  BY CInvHolds, <1>1, PTL

\* The loop invariant: at every step the keys behind the iterator are exactly
\* 1..currentId.
THEOREM FindMissingKeyVisitsInOrder == ConstructionSpec => []Visited
<1>1. CInv => Visited
  BY DEF CInv, LoopIInv
<1> QED
  BY CInvHolds, <1>1, PTL

\* Whatever the registry holds, findMissingKey returns a free id, and every
\* smaller id is in use.
THEOREM FindMissingKeyCorrect == ConstructionSpec => []ReturnsMissingKey
<1>1. CInv => ReturnsMissingKey
  BY DEF CInv, LoopIInv
<1> QED
  BY CInvHolds, <1>1, PTL

\* The loop and the entry made after it are one step for everybody else.
THEOREM ConstructorsAreAtomic == ConstructionSpec => ImplementsHandles
<1>1. InitConstruction => Init
  BY DEF InitConstruction
<1>2. CInv /\ [NextConstruction]_constructionVars => [Next]_vars
  BY NextCInv
<1> QED
  BY CInvHolds, <1>1, <1>2, PTL DEF ConstructionSpec, ImplementsHandles, Spec
=============================================================================
