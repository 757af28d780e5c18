-------------------------- MODULE ProblemJniProofs --------------------------
(***************************************************************************)
(* A problem, proved for every set of facts, goals, effects and            *)
(* inferences.  First the caches: what flushFactsAdded returns is exactly  *)
(* right whatever modified the facts before.  Then the types, through both *)
(* conversions.  Then the goals: the array of getGoals converts back to    *)
(* the goals it was made from, and every handler does to it what GoalList  *)
(* promises.                                                               *)
(***************************************************************************)
EXTENDS ProblemJni, SelectionsProofs, TLAPS

\* The properties of the caches, as predicates on a problem.
CachesOK(p) == p.undelivered \subseteq p.factsAdded /\ p.factsAdded \subseteq p.facts
ApartOK(p)  == p.facts \cap Punctual = {} /\ p.punctualFacts \subseteq Punctual

DomainOK == domain \in Domains
EmptyOK  == ~ exists => problem = EmptyProblem
PrefixOK == PrefixSetFirst => ApartOK(problem)

IInv == FactsTypeOK /\ CachesOK(problem) /\ DomainOK /\ EmptyOK /\ PrefixOK

\* The signals of one modification keep the caches right.
LEMMA ModifiedOK ==
  ASSUME NEW p \in Problems, CachesOK(p), NEW m \in Modifications, NEW q \in Modified(p, m)
  PROVE  q \in Problems /\ CachesOK(q) /\ (ApartOK(p) => ApartOK(q))
<1>1. PICK announced \in SUBSET (m.add \ Punctual) :
        /\ m.add \ (Punctual \cup p.facts) \subseteq announced
        /\ q = OnFactsRemoved(OnFactsAdded(OnPunctualFacts(Stored(p, m),
                 m.add \cap Punctual), announced), m.del)
  BY DEF Modified
<1>2. m.add \subseteq Facts /\ m.del \subseteq Facts
  BY DEF Modifications
<1>3. q = [facts         |-> (p.facts \cup (m.add \ Punctual)) \ m.del,
           factsAdded    |-> (p.factsAdded \cup announced) \ m.del,
           punctualFacts |-> p.punctualFacts \cup (m.add \cap Punctual),
           undelivered   |-> (p.undelivered \cup ((m.add \ Punctual) \ p.facts)) \ m.del]
  BY <1>1 DEF Problems, OnFactsRemoved, OnFactsAdded, OnPunctualFacts, Stored
<1>4. q \in Problems
  BY <1>2, <1>3 DEF Problems
<1>5. CachesOK(q) /\ (ApartOK(p) => ApartOK(q))
  <2>1. /\ q.facts = (p.facts \cup (m.add \ Punctual)) \ m.del
        /\ q.factsAdded = (p.factsAdded \cup announced) \ m.del
        /\ q.punctualFacts = p.punctualFacts \cup (m.add \cap Punctual)
        /\ q.undelivered = (p.undelivered \cup ((m.add \ Punctual) \ p.facts)) \ m.del
    BY <1>3
  <2>2. q.undelivered \subseteq q.factsAdded
    BY <1>1, <2>1 DEF CachesOK
  <2>3. q.factsAdded \subseteq q.facts
    BY <2>1 DEF CachesOK
  <2>4. ApartOK(p) => ApartOK(q)
    BY <2>1 DEF ApartOK
  <2> QED
    BY <2>2, <2>3, <2>4 DEF CachesOK
<1> QED
  BY <1>4, <1>5

\* A whole call: the modification, then what an inference adds to it.
LEMMA ProblemsAfterOK ==
  ASSUME IInv, NEW m \in Modifications, NEW i \in Firing, NEW q \in ProblemsAfter(m, i)
  PROVE  q \in Problems /\ CachesOK(q) /\ (PrefixSetFirst => ApartOK(q))
<1>1. i.facts \in Modifications
  <2>1. Nothing.facts \in Modifications
    BY DEF Nothing, Modifications
  <2> QED
    BY <2>1, InferencesAssumption DEF Firing, ToInference
<1>2. PICK p \in Modified(problem, m) : q \in Modified(p, i.facts)
  BY DEF ProblemsAfter
<1>3. p \in Problems /\ CachesOK(p) /\ (PrefixSetFirst => ApartOK(p))
  BY <1>2, ModifiedOK DEF IInv, FactsTypeOK, PrefixOK
<1> QED
  BY <1>1, <1>2, <1>3, ModifiedOK

\* What a call makes of the problem keeps the invariant.
LEMMA CallIInv ==
  ASSUME IInv, NEW m \in Modifications, NEW i \in Firing, problem' \in ProblemsAfter(m, i),
         exists, UNCHANGED <<prefix, exists, domain>>
  PROVE  IInv'
<1>1. problem' \in Problems /\ CachesOK(problem') /\ (PrefixSetFirst => ApartOK(problem'))
  BY ProblemsAfterOK
<1>2. FactsTypeOK' /\ CachesOK(problem)' /\ DomainOK' /\ EmptyOK'
  BY <1>1 DEF IInv, FactsTypeOK, CachesOK, DomainOK, EmptyOK
<1>3. PrefixOK'
  BY <1>1 DEF PrefixOK, ApartOK, Punctual
<1> QED
  BY <1>2, <1>3 DEF IInv

LEMMA ModifyFactsIInv ==
  ASSUME IInv, NEW m \in Modifications, ModifyFacts(m)
  PROVE  IInv'
BY CallIInv DEF ModifyFacts

LEMMA InitIInv == Init => IInv
BY DEF Init, IInv, FactsTypeOK, CachesOK, DomainOK, Domains, EmptyOK, PrefixOK, ApartOK,
       EmptyProblem, Problems

LEMMA FactCallsIInv ==
  ASSUME IInv, FactCalls
  PROVE  IInv'
<1>1. CASE \E m \in Modifications : ModifyFacts(m)
  BY <1>1, ModifyFactsIInv
<1>2. CASE \E f \in Facts : AddFact(f) \/ RemoveFact(f)
  <2>1. \A f \in Facts : [add |-> {f}, del |-> {}] \in Modifications
                         /\ [add |-> {}, del |-> {f}] \in Modifications
    BY DEF Modifications
  <2> QED
    BY <1>2, <2>1, ModifyFactsIInv DEF AddFact, RemoveFact
<1>3. CASE FlushPunctualFacts
  BY <1>3 DEF IInv, FactsTypeOK, Problems, CachesOK, DomainOK, EmptyOK, PrefixOK, ApartOK,
              Punctual, FlushPunctualFacts
<1>4. CASE FlushFactsAdded
  BY <1>4 DEF IInv, FactsTypeOK, Problems, CachesOK, DomainOK, EmptyOK, PrefixOK, ApartOK,
              Punctual, FlushFactsAdded
<1> QED
  BY <1>1, <1>2, <1>3, <1>4 DEF FactCalls

\* The calls that work on goals, sets of inferences or the domain only.
LEMMA OtherCallsIInv ==
  ASSUME IInv, UNCHANGED <<prefix, problem>>, ~ exists' => ~ exists, DomainOK'
  PROVE  IInv'
BY DEF IInv, FactsTypeOK, CachesOK, EmptyOK, PrefixOK, ApartOK, Punctual

LEMMA NotifyActionDoneIInv ==
  ASSUME IInv, NotifyActionDone
  PROVE  IInv'
<1> DEFINE effect == domain[ToOneStepOfPlannerResult(result).actionId]
<1>1. effect \in Actions
  BY DEF IInv, DomainOK, Domains, NotifyActionDone, KnownActions
<1>2. effect.facts \in Modifications
  <2>1. PICK e \in Effects : effect = ToAction(e)
    BY <1>1 DEF Actions
  <2>2. effect.facts = e.facts
    BY <2>1 DEF ToAction
  <2> QED
    BY <2>2, EffectsAssumption
<1>3. PICK i \in Firing : problem' \in ProblemsAfter(effect.facts, i)
  BY DEF NotifyActionDone
<1>4. exists /\ UNCHANGED <<prefix, exists, domain>>
  BY DEF NotifyActionDone
<1> QED
  BY <1>2, <1>3, <1>4, CallIInv

LEMMA DomainCallsIInv ==
  ASSUME IInv, DomainCalls
  PROVE  IInv'
<1> USE DEF DomainOK, Domains
<1>1. DomainOK
  BY DEF IInv
<1>2. ASSUME NEW batch \in ActionBatches, NewDomain(batch) PROVE DomainOK'
  <2>1. \A a \in ActionIds : ActionsOf(batch)[a] \in Actions \cup {NoAction}
    <3> SUFFICES ASSUME NEW a \in ActionIds
                 PROVE  ActionsOf(batch)[a] \in Actions \cup {NoAction}
      OBVIOUS
    <3> DEFINE n == CHOOSE n \in DOMAIN batch : IsFirst(batch, n, a)
    <3>1. \A k \in DOMAIN batch : batch[k].effect \in Effects
      BY DEF ActionBatches
    <3>2. CASE \E k \in DOMAIN batch : IsFirst(batch, k, a)
      <4>1. n \in DOMAIN batch
        BY <3>2
      <4>2. ActionsOf(batch)[a] = ToAction(batch[n].effect)
        BY <3>2 DEF ActionsOf
      <4> QED
        BY <3>1, <4>1, <4>2 DEF Actions
    <3>3. CASE ~ \E k \in DOMAIN batch : IsFirst(batch, k, a)
      BY <3>3 DEF ActionsOf
    <3> QED
      BY <3>2, <3>3
  <2>2. ActionsOf(batch) \in [ActionIds -> Actions \cup {NoAction}]
    BY <2>1 DEF ActionsOf
  <2> QED
    BY <1>2, <2>2 DEF NewDomain, DomainBecomes
<1>3. ASSUME NEW a \in ActionIds, RemoveAction(a) PROVE DomainOK'
  BY <1>1, <1>3 DEF RemoveAction, DomainBecomes
<1>4. ASSUME NEW a \in ActionIds, NEW effect \in Effects, AddAction(a, effect) PROVE DomainOK'
  <2>1. ToAction(effect) \in Actions
    BY DEF Actions
  <2>2. \/ domain' = [domain EXCEPT ![a] = ToAction(effect)]
        \/ domain' = domain
    BY <1>4 DEF AddAction, DomainBecomes
  <2> QED
    BY <1>1, <1>4, <2>1, <2>2 DEF AddAction
<1>5. ASSUME DisposeDomain PROVE DomainOK'
  BY <1>5 DEF DisposeDomain, DomainBecomes
<1>6. DomainOK'
  <2> HIDE DEF DomainOK
  <2> QED
    BY <1>2, <1>3, <1>4, <1>5 DEF DomainCalls
<1> HIDE DEF DomainOK, Domains
<1>7. UNCHANGED <<prefix, problem, exists>>
  BY DEF DomainCalls, NewDomain, DisposeDomain, AddAction, RemoveAction, DomainBecomes
<1> QED
  BY <1>6, <1>7, OtherCallsIInv

LEMMA NextIInv ==
  ASSUME IInv, [Next]_vars
  PROVE  IInv'
<1>0. ASSUME NEW new \in PunctualPrefixes, SetPunctualFactPrefix(new) PROVE IInv'
  <2>1. PrefixSetFirst => problem = EmptyProblem
    BY <1>0 DEF SetPunctualFactPrefix, IInv, EmptyOK
  <2>2. PrefixOK'
    BY <1>0, <2>1 DEF SetPunctualFactPrefix, PrefixOK, ApartOK, EmptyProblem
  <2> QED
    BY <1>0, <2>2 DEF SetPunctualFactPrefix, IInv, FactsTypeOK, CachesOK, DomainOK, EmptyOK
<1>1. CASE NewProblem
  BY <1>1, OtherCallsIInv DEF NewProblem, IInv, DomainOK
<1>2. CASE DisposeImplementation
  BY <1>2 DEF DisposeImplementation, IInv, FactsTypeOK, CachesOK, DomainOK, EmptyOK,
              PrefixOK, ApartOK, EmptyProblem, Problems
<1>3. CASE FactCalls
  BY <1>3, FactCallsIInv
<1>4. CASE GoalCalls
  <2>1. UNCHANGED <<prefix, exists, problem, domain>>
    BY <1>4 DEF GoalCalls, PushFrontGoal, PushBackGoal, AddGoals, RemoveGoals,
                SetGoalPriority, RemoveFirstGoalsThatAreAlreadySatisfied, GoalsBecome
  <2> QED
    BY <2>1, OtherCallsIInv DEF IInv, DomainOK
<1>5. CASE InferenceCalls
  BY <1>5, OtherCallsIInv
     DEF InferenceCalls, AddSetOfInferences, RemoveSetOfInferences, IInv, DomainOK
<1>6. CASE LookForAnActionToDo
  <2>1. UNCHANGED <<prefix, exists, problem, domain>>
    BY <1>6 DEF LookForAnActionToDo, LookForNothing, FoundNothing, FoundAction
  <2> QED
    BY <2>1, OtherCallsIInv DEF IInv, DomainOK
<1>7. CASE NotifyActionDone
  BY <1>7, NotifyActionDoneIInv
<1>8. CASE DomainCalls
  BY <1>8, DomainCallsIInv
<1>9. CASE UNCHANGED vars
  BY <1>9, OtherCallsIInv DEF vars, IInv, DomainOK
<1> QED
  BY <1>0, <1>1, <1>2, <1>3, <1>4, <1>5, <1>6, <1>7, <1>8, <1>9 DEF Next

-----------------------------------------------------------------------------
(* The types of goals, on both sides of the bridge. *)

\* What the library's map from priorities to vectors of goals of S can be.
Stores(S) == [Priorities -> Seq(S)]

\* The goals that somebody wrote in Kotlin.
Written == {ToGoal(j) : j \in KotlinGoals}

LEMMA ToGoalType == \A j \in JavaGoals : ToGoal(j) \in Goals
BY DEF JavaGoals, Goals, ToGoal

LEMMA EntryGoals ==
  ASSUME NEW s \in Seq(JavaEntries), NEW i \in DOMAIN s
  PROVE  s[i] \in JavaEntries /\ s[i].goal \in JavaGoals
<1>1. s[i] \in JavaEntries
  BY ElementOfSeq, LenProperties
<1> QED
  BY <1>1 DEF JavaEntries

LEMMA WrittenType == Written \subseteq Goals
BY ToGoalType DEF Written, KotlinGoals

LEMMA ElementsMakeSeq ==
  ASSUME NEW S, NEW T, NEW s \in Seq(S), \A i \in DOMAIN s : s[i] \in T
  PROVE  s \in Seq(T)
<1>1. s = [i \in 1 .. Len(s) |-> s[i]] /\ Len(s) \in Nat /\ DOMAIN s = 1 .. Len(s)
  BY LenProperties
<1> QED
  BY <1>1, FunctionIsSeq

LEMMA ToGoalsOf ==
  ASSUME NEW J, NEW js \in Seq(J)
  PROVE  ToGoals(js) \in Seq({ToGoal(j) : j \in J}) /\ Len(ToGoals(js)) = Len(js)
<1>1. \A i \in 1 .. Len(js) : ToGoal(js[i]) \in {ToGoal(j) : j \in J}
  BY ElementOfSeq
<1>2. /\ ToGoals(js) = [i \in 1 .. Len(js) |-> ToGoals(js)[i]]
      /\ \A i \in 1 .. Len(js) : ToGoals(js)[i] = ToGoal(js[i])
  BY LenProperties DEF ToGoals
<1>3. Len(js) \in Nat /\ \A i \in 1 .. Len(js) : ToGoals(js)[i] \in {ToGoal(j) : j \in J}
  BY <1>1, <1>2, LenProperties
<1> QED
  BY <1>2, <1>3, FunctionIsSeq

LEMMA ToGoalsWithPrioritiesOf ==
  ASSUME NEW J, NEW entries \in Seq([priority : Priorities, goal : J])
  PROVE  ToGoalsWithPriorities(entries) \in Stores({ToGoal(j) : j \in J})
<1> DEFINE G == {ToGoal(j) : j \in J}
<1> SUFFICES ASSUME NEW p \in Priorities PROVE ToGoalsWithPriorities(entries)[p] \in Seq(G)
  BY DEF ToGoalsWithPriorities, Stores
<1> DEFINE group == Those(entries, [priority : {p}, goal : JavaGoals])
<1> DEFINE gs == [i \in DOMAIN group |-> ToGoalWithPriority(group[i]).goal]
<1>1. ToGoalsWithPriorities(entries)[p] = gs
  BY DEF ToGoalsWithPriorities
<1>2. group \in Seq([priority : Priorities, goal : J])
  BY ThoseType
<1> HIDE DEF group
<1>3. DOMAIN group = 1 .. Len(group) /\ Len(group) \in Nat
  BY <1>2, LenProperties
<1>4. ASSUME NEW i \in 1 .. Len(group) PROVE gs[i] \in G
  <2>1. group[i] \in [priority : Priorities, goal : J]
    BY <1>2, ElementOfSeq
  <2>2. group[i].goal \in J
    BY <2>1
  <2>3. gs[i] = ToGoal(group[i].goal)
    BY <1>3 DEF ToGoalWithPriority
  <2> QED
    BY <2>2, <2>3
<1>5. gs = [i \in 1 .. Len(group) |-> gs[i]]
  BY <1>3
<1>6. gs \in Seq(G)
  <2> HIDE DEF gs
  <2> QED
    BY <1>3, <1>4, <1>5, FunctionIsSeq
<1> QED
  BY <1>1, <1>6

LEMMA StoresGrow ==
  ASSUME NEW S, NEW T, S \subseteq T, NEW gs \in Stores(S)
  PROVE  gs \in Stores(T)
BY SeqMonotonic DEF Stores

LEMMA ToGoalsType ==
  ASSUME NEW js \in Seq(JavaGoals)
  PROVE  ToGoals(js) \in Seq(Goals) /\ Len(ToGoals(js)) = Len(js)
<1>1. {ToGoal(j) : j \in JavaGoals} \subseteq Goals
  BY ToGoalType
<1> QED
  BY <1>1, ToGoalsOf, SeqMonotonic

LEMMA ToGoalsWithPrioritiesType ==
  ASSUME NEW entries \in Seq(JavaEntries)
  PROVE  ToGoalsWithPriorities(entries) \in Stores(Goals)
<1>1. {ToGoal(j) : j \in JavaGoals} \subseteq Goals
  BY ToGoalType
<1>2. ToGoalsWithPriorities(entries) \in Stores({ToGoal(j) : j \in JavaGoals})
  BY ToGoalsWithPrioritiesOf DEF JavaEntries
<1> QED
  BY <1>1, <1>2, StoresGrow DEF Stores

LEMMA NewJavaGoalType ==
  ASSUME NEW p \in Priorities, NEW g \in Goals
  PROVE  NewJavaGoalWithPriority(p, g) \in JavaEntries
<1>1. Parse[g.text].condition \in Facts \cup {NoCondition} /\ g.text \in Texts
        /\ g.group \in GroupIds
  BY ParseAssumption DEF Goals
<1> QED
  BY <1>1 DEF NewJavaGoalWithPriority, NewJavaGoal, JavaEntries, JavaGoals

LEMMA KeptType ==
  ASSUME NEW S, NEW s \in Seq(S)
  PROVE  Kept(s) \in Seq(S)
BY ThoseType DEF Kept

LEMMA PartType ==
  ASSUME NEW S, NEW s \in Seq(S), NEW m \in Nat \ {0}, NEW n \in Nat, n <= Len(s)
  PROVE  SubSeq(s, m, n) \in Seq(S)
<1>1. \A i \in m .. n : s[i] \in S
  BY ElementOfSeq
<1> QED
  BY <1>1, SubSeqProperties

LEMMA RemoveAtType ==
  ASSUME NEW S, NEW s \in Seq(S), NEW i \in DOMAIN s
  PROVE  RemoveAt(s, i) \in Seq(S)
<1>1. i \in 1 .. Len(s) /\ Len(s) \in Nat
  BY LenProperties
<1>2. SubSeq(s, 1, i - 1) \in Seq(S) /\ SubSeq(s, i + 1, Len(s)) \in Seq(S)
  BY <1>1, PartType
<1> QED
  BY <1>2, ConcatProperties DEF RemoveAt

LEMMA ExpiredType ==
  ASSUME NEW S, NEW gs \in Stores(S), NEW q \in Priorities, NEW k \in Nat, k <= Len(gs[q])
  PROVE  Expired(gs, q, k) \in Stores(S)
<1> SUFFICES ASSUME NEW p \in Priorities PROVE Expired(gs, q, k)[p] \in Seq(S)
  BY DEF Expired, Stores
<1>0. p \in Int /\ q \in Int
  BY PrioritiesAssumption
<1>1. gs[p] \in Seq(S) /\ gs[q] \in Seq(S)
  BY DEF Stores
<1>2. CASE p > q
  <2>1. Expired(gs, q, k)[p] = Kept(gs[p])
    BY <1>0, <1>2 DEF Expired
  <2> QED
    BY <1>1, <2>1, KeptType
<1>3. CASE p = q
  <2>1. Expired(gs, q, k)[p] = KeptAhead(gs[p], k)
    BY <1>0, <1>3 DEF Expired
  <2>2. SubSeq(gs[p], 1, k) \in Seq(S) /\ SubSeq(gs[p], k + 1, Len(gs[p])) \in Seq(S)
    BY <1>1, <1>3, PartType, LenProperties
  <2>3. Kept(SubSeq(gs[p], 1, k)) \in Seq(S)
    BY <2>2, KeptType
  <2> QED
    BY <2>1, <2>2, <2>3, ConcatProperties DEF KeptAhead
<1>4. CASE p < q
  <2>1. Expired(gs, q, k)[p] = gs[p]
    BY <1>0, <1>4 DEF Expired
  <2> QED
    BY <1>1, <2>1
<1> QED
  BY <1>0, <1>2, <1>3, <1>4

LEMMA FirstSatisfiedRemovedType ==
  ASSUME NEW S, NEW gs \in Stores(S), NEW facts, NEW rest \in FirstSatisfiedRemoved(gs, facts)
  PROVE  rest \in Stores(S)
<1>1. PICK c \in Priorities \X (0 .. MaxGoals) : c[2] <= Len(gs[c[1]]) /\ rest = Expired(gs, c[1], c[2])
  BY DEF FirstSatisfiedRemoved
<1>2. c[1] \in Priorities /\ c[2] \in Nat
  BY <1>1
<1> QED
  BY <1>1, <1>2, ExpiredType

LEMMA PushedBackType ==
  ASSUME NEW S, NEW gs \in Stores(S), NEW more \in Stores(S)
  PROVE  PushedBack(gs, more) \in Stores(S)
<1>1. \A p \in Priorities : gs[p] \o more[p] \in Seq(S)
  BY ConcatProperties DEF Stores
<1> QED
  BY <1>1 DEF PushedBack, Stores

LEMMA PushedFrontType ==
  ASSUME NEW S, NEW gs \in Stores(S), NEW p \in Priorities, NEW s \in Seq(S)
  PROVE  PushedFront(gs, p, s) \in Stores(S)
<1>1. s \o gs[p] \in Seq(S)
  BY ConcatProperties DEF Stores
<1> QED
  BY <1>1 DEF PushedFront, Stores

LEMMA AppendedType ==
  ASSUME NEW S, NEW gs \in Stores(S), NEW p \in Priorities, NEW g \in S
  PROVE  [gs EXCEPT ![p] = Append(@, g)] \in Stores(S)
<1>1. Append(gs[p], g) \in Seq(S)
  BY AppendProperties DEF Stores
<1> QED
  BY <1>1 DEF Stores

LEMMA WithoutType ==
  ASSUME NEW S, NEW gs \in Stores(S), NEW p \in Priorities, NEW i \in DOMAIN gs[p]
  PROVE  Without(gs, p, i) \in Stores(S)
<1>1. RemoveAt(gs[p], i) \in Seq(S)
  BY RemoveAtType DEF Stores
<1> QED
  BY <1>1 DEF Without, Stores

\* What inferences and actions add was written by somebody.
LEMMA EntriesAreWritten ==
  ASSUME NEW entries \in Seq(JavaEntries), \A i \in DOMAIN entries : entries[i].goal \in KotlinGoals
  PROVE  ToGoalsWithPriorities(entries) \in Stores(Written)
<1>1. \A i \in DOMAIN entries : entries[i] \in [priority : Priorities, goal : KotlinGoals]
  <2>1. \A i \in DOMAIN entries : entries[i] \in JavaEntries
    BY EntryGoals
  <2> QED
    BY <2>1 DEF JavaEntries
<1>2. entries \in Seq([priority : Priorities, goal : KotlinGoals])
  BY <1>1, ElementsMakeSeq
<1> QED
  BY <1>2, ToGoalsWithPrioritiesOf DEF Written

LEMMA FiringWritten ==
  ASSUME NEW i \in Firing
  PROVE  i.goalsToAdd \in Stores(Written)
<1>1. CASE i = Nothing
  <2>1. NoGoals \in Stores(Written)
    BY EmptySeq DEF NoGoals, Stores
  <2> QED
    BY <1>1, <2>1 DEF Nothing
<1>2. CASE i # Nothing
  <2>1. PICK j \in Inferences : i = ToInference(j)
    BY <1>2 DEF Firing
  <2>2. i.goalsToAdd = ToGoalsWithPriorities(j.goals)
    BY <2>1 DEF ToInference
  <2>3. \A k \in DOMAIN j.goals : j.goals[k].goal \in KotlinGoals
    BY InferencesAssumption, EntryGoals DEF KotlinGoals
  <2> QED
    BY <2>2, <2>3, InferencesAssumption, EntriesAreWritten
<1> QED
  BY <1>1, <1>2

LEMMA ActionWritten ==
  ASSUME NEW a \in Actions
  PROVE  a.goalsToAdd \in Stores(Written) /\ a.goalsToAddInCurrentPriority \in Seq(Written)
<1>1. PICK e \in Effects : a = ToAction(e)
  BY DEF Actions
<1>2. /\ a.goalsToAdd = ToGoalsWithPriorities(e.goalsToAdd)
      /\ a.goalsToAddInCurrentPriority = ToGoals(e.goalsToAddInCurrentPriority)
  BY <1>1 DEF ToAction
<1>3. \A i \in DOMAIN e.goalsToAdd : e.goalsToAdd[i].goal \in KotlinGoals
  BY EffectsAssumption, EntryGoals DEF KotlinGoals
<1>4. \A i \in DOMAIN e.goalsToAddInCurrentPriority :
        e.goalsToAddInCurrentPriority[i] \in KotlinGoals
  BY EffectsAssumption, ElementOfSeq, LenProperties DEF KotlinGoals
<1>5. e.goalsToAddInCurrentPriority \in Seq(KotlinGoals)
  BY <1>4, EffectsAssumption, ElementsMakeSeq
<1>6. ToGoals(e.goalsToAddInCurrentPriority) \in Seq(Written)
  BY <1>5, ToGoalsOf DEF Written
<1> QED
  BY <1>2, <1>3, <1>6, EffectsAssumption, EntriesAreWritten

LEMMA FiringType ==
  ASSUME NEW i \in Firing
  PROVE  i.goalsToAdd \in Stores(Goals)
BY FiringWritten, WrittenType, StoresGrow

LEMMA ActionType ==
  ASSUME NEW a \in Actions
  PROVE  a.goalsToAdd \in Stores(Goals) /\ a.goalsToAddInCurrentPriority \in Seq(Goals)
BY ActionWritten, WrittenType, StoresGrow, SeqMonotonic

-----------------------------------------------------------------------------
(* Every goal in the problem was written by somebody, and the goals keep    *)
(* their types.                                                             *)

WrittenOK == goals \in Stores(Written) /\ result \in Results

LEMMA GoalsTypes ==
  ASSUME GoalsTypeOK
  PROVE  goals \in Stores(Goals)
BY DEF GoalsTypeOK, Stores

LEMMA WrittenIsTyped ==
  ASSUME WrittenOK
  PROVE  GoalsTypeOK
BY WrittenType, StoresGrow DEF WrittenOK, GoalsTypeOK, Stores

LEMMA InitWritten == Init => WrittenOK
BY EmptySeq DEF Init, WrittenOK, NoGoals, Results, Stores

LEMMA ModifyFactsWritten ==
  ASSUME WrittenOK, NEW m, ModifyFacts(m)
  PROVE  WrittenOK'
<1>1. PICK i \in Firing : goals' = PushedBack(goals, i.goalsToAdd)
  BY DEF ModifyFacts, GoalsAfter
<1>2. goals' \in Stores(Written)
  BY <1>1, FiringWritten, PushedBackType DEF WrittenOK
<1>3. result' \in Results
  BY DEF ModifyFacts, WrittenOK
<1> QED
  BY <1>2, <1>3 DEF WrittenOK, Stores

LEMMA FactCallsWritten ==
  ASSUME WrittenOK, FactCalls
  PROVE  WrittenOK'
<1>1. CASE \E m \in Modifications : ModifyFacts(m)
  BY <1>1, ModifyFactsWritten
<1>2. CASE \E f \in Facts : AddFact(f) \/ RemoveFact(f)
  BY <1>2, ModifyFactsWritten DEF AddFact, RemoveFact
<1>3. CASE FlushPunctualFacts \/ FlushFactsAdded
  BY <1>3 DEF FlushPunctualFacts, FlushFactsAdded, WrittenOK, Stores
<1> QED
  BY <1>1, <1>2, <1>3 DEF FactCalls

\* What a handler makes of the goals.
LEMMA GoalsBecomeWritten ==
  ASSUME WrittenOK, NEW gs \in Stores(Written), GoalsBecome(gs)
  PROVE  WrittenOK'
BY DEF GoalsBecome, WrittenOK, Stores

LEMMA ClientEntryType ==
  ASSUME NEW e \in ClientEntries
  PROVE  /\ e \in JavaEntries
         /\ ToGoalWithPriority(e).priority \in Priorities
         /\ ToGoalWithPriority(e).priority = e.priority
         /\ ToGoalWithPriority(e).goal \in Goals /\ ToGoalWithPriority(e).goal \in Written
         /\ ToGoalWithPriority(e).goal = ToGoal(e.goal)
<1>1. e \in JavaEntries
  BY ClientGoalsAssumption DEF ClientEntries, JavaEntries
<1>2. e.priority \in Priorities /\ e.goal \in JavaGoals
  BY <1>1 DEF JavaEntries
<1>3. e.goal \in KotlinGoals
  BY ClientGoalsAssumption DEF ClientEntries, KotlinGoals
<1> QED
  BY <1>1, <1>2, <1>3, ToGoalType DEF ToGoalWithPriority, Written

LEMMA ClientBatchType ==
  ASSUME NEW batch \in ClientBatches
  PROVE  batch \in Seq(JavaEntries) /\ \A i \in DOMAIN batch : batch[i].goal \in KotlinGoals
<1>1. PICK e \in ClientEntries, d \in ClientEntries : batch = <<e, d>>
  BY DEF ClientBatches
<1>2. <<e, d>> \in Seq(JavaEntries)
  BY ClientEntryType
<1>3. \A i \in DOMAIN <<e, d>> : <<e, d>>[i].goal \in KotlinGoals
  BY ClientGoalsAssumption DEF ClientEntries, KotlinGoals
<1> QED
  BY <1>1, <1>2, <1>3

LEMMA GoalCallsWritten ==
  ASSUME WrittenOK, GoalCalls
  PROVE  WrittenOK'
<1>0. goals \in Stores(Written)
  BY DEF WrittenOK
<1>1. ASSUME NEW e \in ClientEntries, PushFrontGoal(e) PROVE WrittenOK'
  <2> DEFINE new == ToGoalWithPriority(e)
  <2>1. new.priority \in Priorities /\ <<new.goal>> \in Seq(Written)
    BY ClientEntryType
  <2>2. GoalsBecome(PushedFront(goals, new.priority, <<new.goal>>))
    BY <1>1 DEF PushFrontGoal
  <2> HIDE DEF new
  <2> QED
    BY <1>0, <2>1, <2>2, PushedFrontType, GoalsBecomeWritten
<1>2. ASSUME NEW e \in ClientEntries, PushBackGoal(e) PROVE WrittenOK'
  <2> DEFINE new == ToGoalWithPriority(e)
  <2>1. new.priority \in Priorities /\ new.goal \in Written
    BY ClientEntryType
  <2>2. GoalsBecome([goals EXCEPT ![new.priority] = Append(@, new.goal)])
    BY <1>2 DEF PushBackGoal
  <2> HIDE DEF new
  <2> QED
    BY <1>0, <2>1, <2>2, AppendedType, GoalsBecomeWritten
<1>3. ASSUME NEW batch \in ClientBatches, AddGoals(batch) PROVE WrittenOK'
  <2>1. batch \in Seq(JavaEntries) /\ \A i \in DOMAIN batch : batch[i].goal \in KotlinGoals
    BY ClientBatchType
  <2> QED
    BY <1>0, <1>3, <2>1, EntriesAreWritten, PushedBackType, GoalsBecomeWritten DEF AddGoals
<1>4. ASSUME NEW group \in GroupIds, RemoveGoals(group) PROVE WrittenOK'
  <2> DEFINE left == [p \in Priorities |-> Those(goals[p], {g \in Goals : g.group # group})]
  <2>1. \A p \in Priorities : Those(goals[p], {g \in Goals : g.group # group}) \in Seq(Written)
    BY <1>0, ThoseType DEF Stores
  <2>2. left \in Stores(Written)
    BY <2>1 DEF Stores
  <2>3. GoalsBecome(left)
    BY <1>4 DEF RemoveGoals
  <2> HIDE DEF left
  <2> QED
    BY <2>2, <2>3, GoalsBecomeWritten
<1>5. ASSUME NEW text \in Texts, NEW p \in Priorities, NEW front \in BOOLEAN,
             SetGoalPriority(text, p, front)
      PROVE  WrittenOK'
  <2>0. PICK q \in Priorities : \E i \in DOMAIN goals[q] :
          GoalsBecome(IF front THEN PushedFront(Without(goals, q, i), p, <<goals[q][i]>>)
                      ELSE [Without(goals, q, i) EXCEPT ![p] = Append(@, goals[q][i])])
    BY <1>5 DEF SetGoalPriority
  <2>1. PICK i \in DOMAIN goals[q] :
          GoalsBecome(IF front THEN PushedFront(Without(goals, q, i), p, <<goals[q][i]>>)
                      ELSE [Without(goals, q, i) EXCEPT ![p] = Append(@, goals[q][i])])
    BY <2>0
  <2>2. goals[q][i] \in Written
    BY <1>0 DEF Stores
  <2>3. Without(goals, q, i) \in Stores(Written)
    BY <1>0, WithoutType
  <2>4. <<goals[q][i]>> \in Seq(Written)
    BY <2>2
  <2>5. CASE front
    BY <2>1, <2>3, <2>4, <2>5, PushedFrontType, GoalsBecomeWritten
  <2>6. CASE ~ front
    BY <2>1, <2>2, <2>3, <2>6, AppendedType, GoalsBecomeWritten
  <2> QED
    BY <2>5, <2>6
<1>6. ASSUME RemoveFirstGoalsThatAreAlreadySatisfied PROVE WrittenOK'
  BY <1>0, <1>6, FirstSatisfiedRemovedType, GoalsBecomeWritten
     DEF RemoveFirstGoalsThatAreAlreadySatisfied
<1> QED
  BY <1>1, <1>2, <1>3, <1>4, <1>5, <1>6 DEF GoalCalls

LEMMA LookForAnActionToDoWritten ==
  ASSUME WrittenOK, LookForAnActionToDo
  PROVE  WrittenOK'
<1>0. goals \in Stores(Written)
  BY DEF WrittenOK
<1>1. CASE LookForNothing
  BY <1>1 DEF LookForNothing, WrittenOK, Results, Stores
<1>2. CASE FoundNothing
  <2>1. \A p \in Priorities : Kept(goals[p]) \in Seq(Written)
    BY <1>0, KeptType DEF Stores
  <2>2. goals' = [p \in Priorities |-> Kept(goals[p])] /\ result' = NoResult
    BY <1>2 DEF FoundNothing
  <2>3. goals' \in Stores(Written)
    BY <2>1, <2>2 DEF Stores
  <2> QED
    BY <2>2, <2>3 DEF Results, WrittenOK, Stores
<1>3. ASSUME NEW a \in KnownActions, NEW q \in Priorities, NEW k \in 1 .. MaxGoals,
             FoundAction(a, q, k)
      PROVE  WrittenOK'
  <2>1. goals[q] \in Seq(Written) /\ k \in DOMAIN goals[q]
    BY <1>0, <1>3 DEF FoundAction, Stores
  <2>2. k - 1 \in Nat /\ k - 1 <= Len(goals[q]) /\ goals[q][k] \in Written
    BY <2>1, LenProperties
  <2>3. goals' \in Stores(Written)
    BY <1>0, <1>3, <2>2, ExpiredType DEF FoundAction
  <2>4. a \in ActionIds
    BY DEF KnownActions
  <2>5. result' \in Results
    BY <1>3, <2>2, <2>4, WrittenType, NewJavaGoalType DEF FoundAction, Results
  <2> QED
    BY <2>3, <2>5 DEF WrittenOK, Stores
<1> QED
  BY <1>1, <1>2, <1>3 DEF LookForAnActionToDo

\* The library's goal with its priority that an action is done for.
DoneFor == ToOneStepOfPlannerResult(result).fromGoal

LEMMA DoneForIs ==
  ASSUME result \in Results, result # NoResult
  PROVE  /\ DoneFor.priority = result.fromGoal.priority /\ DoneFor.priority \in Priorities
         /\ DoneFor.goal = ToGoal(result.fromGoal.goal) /\ DoneFor.goal \in Goals
<1>1. result \in [actionId : ActionIds, fromGoal : JavaEntries]
  BY DEF Results
<1>2. /\ DoneFor.priority = result.fromGoal.priority
      /\ DoneFor.goal = ToGoal(result.fromGoal.goal)
  BY DEF DoneFor, ToOneStepOfPlannerResult, ToGoalWithPriority
<1>3. result.fromGoal \in JavaEntries
  BY <1>1
<1>4. result.fromGoal.priority \in Priorities /\ result.fromGoal.goal \in JavaGoals
  BY <1>3 DEF JavaEntries
<1> QED
  BY <1>2, <1>4, ToGoalType

LEMMA StepDoneType ==
  ASSUME NEW S, NEW gs \in Stores(S), NEW from, from.priority \in Priorities,
         NEW left \in StepDone(gs, from)
  PROVE  left \in Stores(S)
BY WithoutType DEF StepDone

\* The goals after an action done, before satisfied ones are removed.
LEMMA NotifyAdds ==
  ASSUME NEW S, Written \subseteq S, goals \in Stores(S), result \in Results, DomainOK,
         NotifyActionDone
  PROVE  \E a \in Actions, i \in Firing, left \in StepDone(goals, DoneFor) :
           /\ a = domain[result.actionId] /\ left \in Stores(S)
           /\ Added(left, a, i, DoneFor.priority) \in Stores(S)
           /\ goals' \in FirstSatisfiedRemoved(Added(left, a, i, DoneFor.priority), problem'.facts)
<1> DEFINE a == domain[result.actionId]
<1> DEFINE p == DoneFor.priority
<1>1. p \in Priorities
  BY DoneForIs DEF NotifyActionDone
<1>2. a \in Actions
  BY DEF DomainOK, Domains, NotifyActionDone, KnownActions, ToOneStepOfPlannerResult
<1>3. PICK i \in Firing, left \in StepDone(goals, DoneFor) :
        goals' \in FirstSatisfiedRemoved(Added(left, a, i, p), problem'.facts)
  <2>1. domain[ToOneStepOfPlannerResult(result).actionId] = a
    BY DEF ToOneStepOfPlannerResult
  <2> HIDE DEF a
  <2> QED
    BY <2>1 DEF NotifyActionDone, DoneFor
<1>4. left \in Stores(S)
  BY <1>1, StepDoneType
<1> HIDE DEF a, p
<1>5. a.goalsToAdd \in Stores(S) /\ a.goalsToAddInCurrentPriority \in Seq(S)
  BY <1>2, ActionWritten, StoresGrow, SeqMonotonic
<1>6. i.goalsToAdd \in Stores(S)
  BY FiringWritten, StoresGrow
<1>7. Added(left, a, i, p) \in Stores(S)
  <2>1. PushedBack(left, i.goalsToAdd) \in Stores(S)
    BY <1>4, <1>6, PushedBackType
  <2>2. PushedBack(PushedBack(left, i.goalsToAdd), a.goalsToAdd) \in Stores(S)
    BY <1>5, <2>1, PushedBackType
  <2> QED
    BY <1>1, <1>5, <2>2, PushedFrontType DEF Added
<1> QED
  BY <1>2, <1>3, <1>4, <1>7 DEF a, p

LEMMA NextWritten ==
  ASSUME DomainOK, WrittenOK, [Next]_vars
  PROVE  WrittenOK'
<1>0. CASE \E new \in PunctualPrefixes : SetPunctualFactPrefix(new)
  BY <1>0 DEF SetPunctualFactPrefix, WrittenOK, Stores
<1>1. CASE NewProblem
  BY <1>1 DEF NewProblem, WrittenOK, Stores
<1>2. CASE DisposeImplementation
  BY <1>2, EmptySeq DEF DisposeImplementation, NoGoals, WrittenOK, Stores
<1>3. CASE FactCalls
  BY <1>3, FactCallsWritten
<1>4. CASE GoalCalls
  BY <1>4, GoalCallsWritten
<1>5. CASE InferenceCalls
  BY <1>5 DEF InferenceCalls, AddSetOfInferences, RemoveSetOfInferences, WrittenOK, Stores
<1>6. CASE LookForAnActionToDo
  BY <1>6, LookForAnActionToDoWritten
<1>7. CASE NotifyActionDone
  <2>1. goals' \in Stores(Written)
    BY <1>7, NotifyAdds, FirstSatisfiedRemovedType DEF WrittenOK
  <2>2. result' \in Results
    BY <1>7 DEF NotifyActionDone, WrittenOK
  <2> QED
    BY <2>1, <2>2 DEF WrittenOK, Stores
<1>8. CASE DomainCalls
  BY <1>8 DEF DomainCalls, NewDomain, DisposeDomain, RemoveAction, AddAction, DomainBecomes,
              WrittenOK, Stores
<1>9. CASE UNCHANGED vars
  BY <1>9 DEF vars, WrittenOK, Stores
<1> QED
  BY <1>0, <1>1, <1>2, <1>3, <1>4, <1>5, <1>6, <1>7, <1>8, <1>9 DEF Next

SmallTypesOK ==
  prefix \in PunctualPrefixes /\ exists \in BOOLEAN /\ attached \subseteq SetsOfInferences

LEMMA NextSmallTypes ==
  ASSUME SmallTypesOK, [Next]_vars
  PROVE  SmallTypesOK'
<1> USE DEF SmallTypesOK
<1>0. CASE \E new \in PunctualPrefixes : SetPunctualFactPrefix(new)
  BY <1>0 DEF SetPunctualFactPrefix
<1>1. CASE NewProblem \/ DisposeImplementation
  BY <1>1 DEF NewProblem, DisposeImplementation
<1>2. CASE FactCalls
  BY <1>2 DEF FactCalls, AddFact, RemoveFact, ModifyFacts, FlushPunctualFacts, FlushFactsAdded
<1>3. CASE GoalCalls
  BY <1>3 DEF GoalCalls, PushFrontGoal, PushBackGoal, AddGoals, RemoveGoals, SetGoalPriority,
              RemoveFirstGoalsThatAreAlreadySatisfied, GoalsBecome
<1>4. CASE InferenceCalls
  BY <1>4 DEF InferenceCalls, AddSetOfInferences, RemoveSetOfInferences
<1>5. CASE LookForAnActionToDo \/ NotifyActionDone
  BY <1>5 DEF LookForAnActionToDo, LookForNothing, FoundNothing, FoundAction, NotifyActionDone
<1>6. CASE DomainCalls
  BY <1>6 DEF DomainCalls, NewDomain, DisposeDomain, RemoveAction, AddAction, DomainBecomes
<1>7. CASE UNCHANGED vars
  BY <1>7 DEF vars
<1> QED
  BY <1>0, <1>1, <1>2, <1>3, <1>4, <1>5, <1>6, <1>7 DEF Next

\* The facts, goals, sets, domain and planner result keep their types, through
\* both conversions, for any client and any choice of the library.
THEOREM ProblemKeepsTypes == Spec => []TypeOK
<1> DEFINE Inv == IInv /\ WrittenOK /\ SmallTypesOK
<1>1. Init => Inv
  BY InitIInv, InitWritten, PrefixAssumption DEF Init, SmallTypesOK
<1>2. Inv /\ [Next]_vars => Inv'
  <2>1. IInv => DomainOK
    BY DEF IInv
  <2> QED
    BY <2>1, NextIInv, NextWritten, NextSmallTypes
<1>3. Inv => TypeOK
  BY WrittenIsTyped DEF IInv, DomainOK, SmallTypesOK, TypeOK
<1> QED
  BY <1>1, <1>2, <1>3, PTL DEF Spec

-----------------------------------------------------------------------------
(* Whose goal an action is found for. *)

\* Every client writes the condition of a goal in its text too.
ConditionsAreInTheTexts == \A j \in KotlinGoals : j.condition = Parse[j.fact].condition

\* The array that getGoals returns keeps text and group of a goal.
LEMMA ThereAndBack ==
  ASSUME NEW g \in Goals
  PROVE  ToGoal(NewJavaGoal(g)) = g
BY DEF Goals, ToGoal, NewJavaGoal

EnabledGoal ==
  result' # result /\ result' # NoResult =>
    \E j \in KotlinGoals : /\ ToGoal(j) = ToGoal(result'.fromGoal.goal)
                           /\ j.condition \in problem.facts \cup {NoCondition}

LEMMA FoundActionEnabled ==
  ASSUME ConditionsAreInTheTexts, WrittenOK, NEW a, NEW q \in Priorities, NEW k \in Nat,
         FoundAction(a, q, k)
  PROVE  EnabledGoal
<1> DEFINE g == goals[q][k]
<1>1. g \in Written
  BY ElementOfSeq, LenProperties DEF WrittenOK, Stores, FoundAction
<1>2. Parse[g.text].condition \in problem.facts \cup {NoCondition}
  BY DEF FoundAction, NotSatisfied
<1>3. result'.fromGoal.goal = NewJavaGoal(g)
  BY DEF FoundAction, NewJavaGoalWithPriority
<1> HIDE DEF g
<1>4. PICK j \in KotlinGoals : g = ToGoal(j)
  BY <1>1 DEF Written
<1>5. ToGoal(result'.fromGoal.goal) = ToGoal(j)
  BY <1>1, <1>3, <1>4, WrittenType, ThereAndBack
<1>6. j.condition = Parse[g.text].condition
  BY <1>4 DEF ConditionsAreInTheTexts, ToGoal
<1> QED
  BY <1>2, <1>5, <1>6 DEF EnabledGoal

LEMMA NextEnabled ==
  ASSUME ConditionsAreInTheTexts, WrittenOK, [Next]_vars
  PROVE  EnabledGoal
<1>1. CASE LookForAnActionToDo
  <2>1. CASE LookForNothing \/ FoundNothing
    BY <2>1 DEF LookForNothing, FoundNothing, EnabledGoal
  <2> QED
    BY <1>1, <2>1, FoundActionEnabled DEF LookForAnActionToDo
<1>2. CASE UNCHANGED result
  BY <1>2 DEF EnabledGoal
<1>3. CASE NewProblem \/ DisposeImplementation \/ NotifyActionDone
             \/ \E new \in PunctualPrefixes : SetPunctualFactPrefix(new)
  BY <1>2, <1>3 DEF NewProblem, DisposeImplementation, NotifyActionDone, SetPunctualFactPrefix
<1>4. CASE FactCalls
  BY <1>2, <1>4 DEF FactCalls, AddFact, RemoveFact, ModifyFacts, FlushPunctualFacts,
                    FlushFactsAdded
<1>5. CASE GoalCalls
  BY <1>2, <1>5 DEF GoalCalls, PushFrontGoal, PushBackGoal, AddGoals, RemoveGoals,
                    SetGoalPriority, RemoveFirstGoalsThatAreAlreadySatisfied, GoalsBecome
<1>6. CASE InferenceCalls \/ DomainCalls
  BY <1>2, <1>6 DEF InferenceCalls, AddSetOfInferences, RemoveSetOfInferences, DomainCalls,
                    NewDomain, DisposeDomain, RemoveAction, AddAction, DomainBecomes
<1>7. CASE UNCHANGED vars
  BY <1>2, <1>7 DEF vars
<1> QED
  BY <1>1, <1>3, <1>4, <1>5, <1>6, <1>7 DEF Next

\* The condition of a goal must be present in the world to enable the goal
\* (Goal.kt:6).  toGoal drops the field of that name, so this fails for a
\* client who writes the condition there only; for one who writes it in the
\* text too, an action is found for a goal whose condition holds, whatever
\* other goals, actions and inferences there are.
THEOREM ConditionInTextEnablesGoal ==
  ASSUME ConditionsAreInTheTexts
  PROVE  Spec => ConditionEnablesGoal
<1> DEFINE Inv == IInv /\ WrittenOK
<1>1. Init => Inv
  BY InitIInv, InitWritten
<1>2. Inv /\ [Next]_vars => Inv'
  BY NextIInv, NextWritten DEF IInv
<1>3. Inv /\ [Next]_vars => [EnabledGoal]_vars
  BY NextEnabled
<1>4. Inv /\ [Next]_vars =>
        [result' # result /\ result' # NoResult =>
           \E j \in KotlinGoals :
             /\ ToGoal(j) = ToGoal(result'.fromGoal.goal)
             /\ j.condition \in problem.facts \cup {NoCondition}]_vars
  BY <1>3 DEF EnabledGoal
<1> QED
  BY <1>1, <1>2, <1>4, PTL DEF Spec, ConditionEnablesGoal

-----------------------------------------------------------------------------
(* The array of getGoals, row by row. *)

Row(p, s)    == [i \in DOMAIN s |-> NewJavaGoalWithPriority(p, s[i])]
Rows(gs)     == [k \in DOMAIN DescendingPriorities |->
                  Row(DescendingPriorities[k], gs[DescendingPriorities[k]])]
EntriesAt(p) == {e \in GoalEntries : e.priority = p}

LEMMA PrioritiesDescend == IsDescending(DescendingPriorities, Priorities)
<1>1. \E s : IsDescending(s, Priorities)
  BY DescendingExists, PrioritiesAssumption
<1>2. \E s \in [1 .. Cardinality(Priorities) -> Priorities] :
        /\ \A p \in Priorities : \E i \in DOMAIN s : s[i] = p
        /\ \A i, j \in DOMAIN s : i < j => s[i] > s[j]
  BY <1>1, Zenon DEF IsDescending
<1> QED
  BY <1>2, Zenon DEF DescendingPriorities, IsDescending

LEMMA EachPriorityOnce ==
  /\ Cardinality(Priorities) \in Nat
  /\ DOMAIN DescendingPriorities = 1 .. Cardinality(Priorities)
  /\ \A k \in DOMAIN DescendingPriorities : DescendingPriorities[k] \in Priorities
  /\ \A p \in Priorities : \E k \in DOMAIN DescendingPriorities :
       /\ DescendingPriorities[k] = p
       /\ \A i \in DOMAIN DescendingPriorities : i # k => DescendingPriorities[i] # p
<1> DEFINE dp == DescendingPriorities
<1> DEFINE n == Cardinality(Priorities)
<1>1. /\ dp \in [1 .. n -> Priorities]
      /\ \A p \in Priorities : \E i \in DOMAIN dp : dp[i] = p
      /\ \A i, j \in DOMAIN dp : i < j => dp[i] > dp[j]
  BY PrioritiesDescend DEF IsDescending
<1>2. n \in Nat
  BY FS_CardinalityType, PrioritiesAssumption
<1> HIDE DEF dp, n
<1>3. \A i, j \in 1 .. n : i # j => dp[i] # dp[j]
  <2> SUFFICES ASSUME NEW i \in 1 .. n, NEW j \in 1 .. n, i # j PROVE dp[i] # dp[j]
    OBVIOUS
  <2>1. dp[i] \in Int /\ dp[j] \in Int
    BY <1>1, PrioritiesAssumption
  <2>2. i < j \/ j < i
    BY <1>2
  <2> QED
    BY <1>1, <2>1, <2>2
<1> QED
  BY <1>1, <1>2, <1>3 DEF dp, n

LEMMA RowType ==
  ASSUME NEW p \in Priorities, NEW s \in Seq(Goals)
  PROVE  Row(p, s) \in Seq(EntriesAt(p)) /\ Len(Row(p, s)) = Len(s) /\ DOMAIN Row(p, s) = DOMAIN s
<1>1. DOMAIN s = 1 .. Len(s) /\ Len(s) \in Nat
  BY LenProperties
<1>2. ASSUME NEW i \in 1 .. Len(s) PROVE Row(p, s)[i] \in EntriesAt(p)
  <2>1. s[i] \in Goals
    BY ElementOfSeq
  <2>2. Row(p, s)[i] = NewJavaGoalWithPriority(p, s[i])
    BY <1>1 DEF Row
  <2>3. NewJavaGoalWithPriority(p, s[i]).priority = p
    BY DEF NewJavaGoalWithPriority
  <2>4. NewJavaGoalWithPriority(p, s[i]) \in GoalEntries
    BY <2>1 DEF GoalEntries
  <2> QED
    BY <2>2, <2>3, <2>4 DEF EntriesAt
<1>3. Row(p, s) = [i \in 1 .. Len(s) |-> Row(p, s)[i]] /\ DOMAIN Row(p, s) = DOMAIN s
  BY <1>1 DEF Row
<1> QED
  BY <1>1, <1>2, <1>3, FunctionIsSeq

LEMMA RowsType ==
  ASSUME NEW gs \in Stores(Goals)
  PROVE  /\ Rows(gs) \in Seq(Seq(GoalEntries))
         /\ DOMAIN Rows(gs) = DOMAIN DescendingPriorities
         /\ \A k \in DOMAIN DescendingPriorities :
              Rows(gs)[k] = Row(DescendingPriorities[k], gs[DescendingPriorities[k]])
<1> DEFINE n == Cardinality(Priorities)
<1>1. n \in Nat /\ DOMAIN DescendingPriorities = 1 .. n
        /\ \A k \in 1 .. n : DescendingPriorities[k] \in Priorities
  BY EachPriorityOnce
<1>2. DOMAIN Rows(gs) = 1 .. n /\ Rows(gs) = [k \in 1 .. n |-> Rows(gs)[k]]
        /\ \A k \in 1 .. n :
             Rows(gs)[k] = Row(DescendingPriorities[k], gs[DescendingPriorities[k]])
  BY <1>1, Zenon DEF Rows
<1>3. ASSUME NEW k \in 1 .. n PROVE Rows(gs)[k] \in Seq(GoalEntries)
  <2> DEFINE p == DescendingPriorities[k]
  <2>1. p \in Priorities /\ gs[p] \in Seq(Goals)
    BY <1>1 DEF Stores
  <2>2. Row(p, gs[p]) \in Seq(EntriesAt(p))
    BY <2>1, RowType
  <2>3. EntriesAt(p) \subseteq GoalEntries
    BY DEF EntriesAt
  <2> QED
    BY <1>2, <2>2, <2>3, SeqMonotonic
<1> HIDE DEF n
<1>4. Rows(gs) \in Seq(Seq(GoalEntries))
  BY <1>1, <1>2, <1>3, FunctionIsSeq
<1> QED
  BY <1>1, <1>2, <1>4

LEMMA ConvertIsFlat ==
  ASSUME NEW gs \in Stores(Goals)
  PROVE  ConvertGoalsToJava(gs) = FlattenSeq(Rows(gs)) /\ ConvertGoalsToJava(gs) \in Seq(GoalEntries)
<1>1. ConvertGoalsToJava(gs) = FlattenSeq(Rows(gs))
  BY Zenon DEF ConvertGoalsToJava, Rows, Row
<1> QED
  BY <1>1, RowsType, FlattenType

\* What the array has of one priority is the vector of that priority.
LEMMA SliceIsRow ==
  ASSUME NEW gs \in Stores(Goals), NEW p \in Priorities, NEW T, T \cap GoalEntries = EntriesAt(p)
  PROVE  Those(ConvertGoalsToJava(gs), T) = Row(p, gs[p])
<1> DEFINE dp == DescendingPriorities
<1> DEFINE parts == [k \in DOMAIN Rows(gs) |-> Those(Rows(gs)[k], T)]
<1>1. Those(ConvertGoalsToJava(gs), T) = FlattenSeq(parts)
  BY ConvertIsFlat, RowsType, ThoseFlatten
<1>2. PICK k \in DOMAIN dp : dp[k] = p /\ \A i \in DOMAIN dp : i # k => dp[i] # p
  BY EachPriorityOnce
<1>3. ASSUME NEW i \in DOMAIN dp
      PROVE  /\ dp[i] \in Priorities /\ gs[dp[i]] \in Seq(Goals)
             /\ Row(dp[i], gs[dp[i]]) \in Seq(EntriesAt(dp[i]))
             /\ parts[i] = Those(Row(dp[i], gs[dp[i]]), T)
  <2>1. dp[i] \in Priorities
    BY EachPriorityOnce
  <2>2. gs[dp[i]] \in Seq(Goals)
    BY <2>1 DEF Stores
  <2>3. i \in DOMAIN Rows(gs) /\ Rows(gs)[i] = Row(dp[i], gs[dp[i]])
    BY RowsType
  <2>4. parts[i] = Those(Rows(gs)[i], T)
    BY <2>3, Zenon
  <2> HIDE DEF dp, parts
  <2> QED
    BY <2>1, <2>2, <2>3, <2>4, RowType
<1>4. parts[k] = Row(p, gs[p])
  <2>1. Row(p, gs[p]) \in Seq(EntriesAt(p)) /\ parts[k] = Those(Row(p, gs[p]), T)
    BY <1>2, <1>3
  <2>2. EntriesAt(p) \cap T = EntriesAt(p) \cap EntriesAt(p)
    BY DEF EntriesAt
  <2>3. Those(Row(p, gs[p]), T) = Those(Row(p, gs[p]), EntriesAt(p))
    BY <2>1, <2>2, ThoseSame
  <2>4. Those(Row(p, gs[p]), EntriesAt(p)) = Row(p, gs[p])
    BY <2>1, ThoseAll
  <2> QED
    BY <2>1, <2>3, <2>4, Zenon
<1>5. ASSUME NEW i \in DOMAIN dp, i # k PROVE parts[i] = <<>>
  <2>1. dp[i] # p
    BY <1>2, <1>5
  <2>2. EntriesAt(dp[i]) \cap T = {}
    BY <2>1 DEF EntriesAt
  <2>3. Those(Row(dp[i], gs[dp[i]]), T) = <<>>
    BY <1>3, <2>2, ThoseNone
  <2> QED
    BY <1>3, <2>3
<1>6. DOMAIN parts = DOMAIN dp
  BY RowsType, Zenon
<1>7. parts \in Seq(Seq(GoalEntries))
  <2>1. /\ DOMAIN dp = 1 .. Cardinality(Priorities) /\ Cardinality(Priorities) \in Nat
    BY EachPriorityOnce
  <2>2. parts = [i \in 1 .. Cardinality(Priorities) |-> parts[i]]
    BY <1>6, <2>1, Zenon
  <2>3. ASSUME NEW i \in 1 .. Cardinality(Priorities) PROVE parts[i] \in Seq(GoalEntries)
    <3>1. Rows(gs)[i] \in Seq(GoalEntries)
      BY <2>1, RowsType, ElementOfSeq, LenProperties
    <3>2. parts[i] = Those(Rows(gs)[i], T)
      BY <2>1, RowsType, Zenon
    <3> HIDE DEF parts
    <3> QED
      BY <3>1, <3>2, ThoseType
  <2> HIDE DEF parts
  <2> QED
    BY <2>1, <2>2, <2>3, FunctionIsSeq
<1>8. FlattenSeq(parts) = parts[k]
  <2> HIDE DEF parts, dp
  <2> QED
    BY <1>2, <1>5, <1>6, <1>7, FlattenOne
<1> HIDE DEF parts
<1> QED
  BY <1>1, <1>4, <1>8, Zenon

LEMMA RoundTrip ==
  ASSUME NEW gs \in Stores(Goals)
  PROVE  ToGoalsWithPriorities(ConvertGoalsToJava(gs)) = gs
<1>1. ASSUME NEW p \in Priorities
      PROVE  ToGoalsWithPriorities(ConvertGoalsToJava(gs))[p] = gs[p]
  <2> DEFINE T == [priority : {p}, goal : JavaGoals]
  <2> DEFINE row == Row(p, gs[p])
  <2>1. T \cap GoalEntries = EntriesAt(p)
    <3>1. ASSUME NEW e \in GoalEntries, e.priority = p PROVE e \in T
      <4>1. e \in JavaEntries
        BY NewJavaGoalType DEF GoalEntries
      <4> QED
        BY <3>1, <4>1 DEF JavaEntries
    <3> QED
      BY <3>1 DEF EntriesAt
  <2>2. Those(ConvertGoalsToJava(gs), T) = row
    <3> HIDE DEF T
    <3> QED
      BY <2>1, SliceIsRow
  <2>3. ToGoalsWithPriorities(ConvertGoalsToJava(gs))[p]
          = [i \in DOMAIN row |-> ToGoalWithPriority(row[i]).goal]
    BY <2>2, Zenon DEF ToGoalsWithPriorities
  <2>4. gs[p] \in Seq(Goals)
    BY DEF Stores
  <2>5. ASSUME NEW i \in DOMAIN gs[p] PROVE ToGoalWithPriority(row[i]).goal = gs[p][i]
    <3>1. gs[p][i] \in Goals
      BY <2>4
    <3>2. row[i] = NewJavaGoalWithPriority(p, gs[p][i])
      BY Zenon DEF Row
    <3>3. row[i].goal.fact = gs[p][i].text /\ row[i].goal.groupId = gs[p][i].group
      BY <3>2 DEF NewJavaGoalWithPriority, NewJavaGoal
    <3> HIDE DEF row
    <3> QED
      BY <3>1, <3>3 DEF ToGoalWithPriority, ToGoal, Goals
  <2>6. DOMAIN row = DOMAIN gs[p]
    BY Zenon DEF Row
  <2>7. [i \in DOMAIN row |-> ToGoalWithPriority(row[i]).goal] = [i \in DOMAIN gs[p] |-> gs[p][i]]
    <3> HIDE DEF row
    <3> QED
      BY <2>5, <2>6, Zenon
  <2>8. [i \in DOMAIN gs[p] |-> gs[p][i]] = gs[p]
    BY <2>4
  <2> QED
    BY <2>3, <2>7, <2>8, Zenon
<1>2. ToGoalsWithPriorities(ConvertGoalsToJava(gs))
        = [p \in Priorities |-> ToGoalsWithPriorities(ConvertGoalsToJava(gs))[p]]
  BY Zenon DEF ToGoalsWithPriorities
<1>3. gs = [p \in Priorities |-> gs[p]]
  BY DEF Stores
<1> QED
  BY <1>1, <1>2, <1>3, Zenon

\* The array of getGoals handed to addGoals of an empty problem gives the same
\* goals in the same order, in every state a client can bring a problem into.
THEOREM GoalsCrossTheBridge == Spec => []GoalsSurviveTheBridge
<1>1. TypeOK => GoalsSurviveTheBridge
  BY RoundTrip, GoalsTypes DEF TypeOK, GoalsSurviveTheBridge
<1> QED
  BY <1>1, ProblemKeepsTypes, PTL

\* flushFactsAdded never misses a fact: every fact stored since the last flush
\* and still there is in the cache, whichever handler, action or inference
\* stored it.
THEOREM FlushMissesNothing == Spec => []CacheComplete
<1>1. IInv => CacheComplete
  BY DEF IInv, CachesOK, CacheComplete
<1> QED
  BY InitIInv, NextIInv, <1>1, PTL DEF Spec

\* flushFactsAdded never returns a fact that was removed since it was added.
THEOREM FlushReturnsFacts == Spec => []CacheSound
<1>1. IInv => CacheSound
  BY DEF IInv, CachesOK, CacheSound
<1> QED
  BY InitIInv, NextIInv, <1>1, PTL DEF Spec

\* A punctual fact is raised and never stored, a fact that is stored is never
\* raised, if the client sets the punctual prefix only while it has no problem.
THEOREM PunctualFactsAreNotStored ==
  ASSUME PrefixSetFirst
  PROVE  Spec => []PunctualApart
<1>1. IInv => PunctualApart
  BY DEF IInv, CachesOK, PrefixOK, ApartOK, PunctualApart
<1> QED
  BY InitIInv, NextIInv, <1>1, PTL DEF Spec

-----------------------------------------------------------------------------
(* The list of getGoals is the one sorted list with these rows. *)

LEMMA EntriesRanked == Ranked(GoalEntries)
BY PrioritiesAssumption DEF Ranked, GoalEntries, NewJavaGoalWithPriority

\* getGoals returns a list sorted by descending priority.
LEMMA ConvertSorted ==
  ASSUME NEW gs \in Stores(Goals)
  PROVE  ConvertGoalsToJava(gs) \in Seq(GoalEntries) /\ Sorted(ConvertGoalsToJava(gs))
<1> DEFINE d == DescendingPriorities
<1>1. Rows(gs) \in Seq(Seq(GoalEntries)) /\ DOMAIN Rows(gs) = DOMAIN d
  BY RowsType
<1>2. ASSUME NEW k \in DOMAIN Rows(gs)
      PROVE  d[k] \in Int /\ Rows(gs)[k] \in Seq(At(GoalEntries, d[k]))
  <2>1. d[k] \in Priorities /\ Rows(gs)[k] = Row(d[k], gs[d[k]])
    BY <1>1, RowsType, EachPriorityOnce
  <2>2. gs[d[k]] \in Seq(Goals)
    BY <2>1 DEF Stores
  <2> HIDE DEF d
  <2>3. Row(d[k], gs[d[k]]) \in Seq(EntriesAt(d[k]))
    BY <2>1, <2>2, RowType
  <2>4. EntriesAt(d[k]) = At(GoalEntries, d[k])
    BY DEF EntriesAt, At
  <2> QED
    BY <2>1, <2>3, <2>4, PrioritiesAssumption
<1>3. \A i, j \in DOMAIN Rows(gs) : i < j => d[i] > d[j]
  BY <1>1, PrioritiesDescend DEF IsDescending
<1> HIDE DEF d
<1>4. Sorted(FlattenSeq(Rows(gs)))
  BY <1>1, <1>2, <1>3, EntriesRanked, FlattenSorted
<1> QED
  BY <1>4, ConvertIsFlat

\* Its slice of priority p is the vector of p.
LEMMA ConvertAt ==
  ASSUME NEW gs \in Stores(Goals), NEW p \in Priorities
  PROVE  Those(ConvertGoalsToJava(gs), At(GoalEntries, p)) = Row(p, gs[p])
<1>1. At(GoalEntries, p) \cap GoalEntries = EntriesAt(p)
  BY DEF At, EntriesAt
<1> QED
  BY <1>1, SliceIsRow

\* No other sorted list has these slices.
LEMMA ConvertUnique ==
  ASSUME NEW gs \in Stores(Goals), NEW m \in Seq(GoalEntries), Sorted(m),
         \A p \in Priorities : Those(m, At(GoalEntries, p)) = Row(p, gs[p])
  PROVE  m = ConvertGoalsToJava(gs)
<1> DEFINE l == ConvertGoalsToJava(gs)
<1>1. l \in Seq(GoalEntries) /\ Sorted(l)
  BY ConvertSorted
<1>2. ASSUME NEW p \in Int PROVE Those(m, At(GoalEntries, p)) = Those(l, At(GoalEntries, p))
  <2>1. CASE p \in Priorities
    BY <2>1, ConvertAt
  <2>2. CASE p \notin Priorities
    <3>1. GoalEntries \cap At(GoalEntries, p) = {}
      BY <2>2 DEF At, GoalEntries, NewJavaGoalWithPriority
    <3> HIDE DEF l
    <3> QED
      BY <1>1, <3>1, ThoseNone
  <2> QED
    BY <2>1, <2>2
<1> HIDE DEF l
<1>3. m = l
  BY <1>1, <1>2, EntriesRanked, SortedUnique
<1> QED
  BY <1>3 DEF l

LEMMA RowAppend ==
  ASSUME NEW p \in Priorities, NEW s \in Seq(Goals), NEW g \in Goals
  PROVE  Row(p, Append(s, g)) = Append(Row(p, s), NewJavaGoalWithPriority(p, g))
<1> DEFINE r == Row(p, s)
<1> DEFINE t == Row(p, Append(s, g))
<1> DEFINE e == NewJavaGoalWithPriority(p, g)
<1>1. /\ DOMAIN Append(s, g) = 1 .. Len(s) + 1 /\ Append(s, g)[Len(s) + 1] = g
      /\ \A k \in 1 .. Len(s) : Append(s, g)[k] = s[k]
      /\ DOMAIN s = 1 .. Len(s) /\ Len(s) \in Nat
  BY AppendDomain
<1>2. r \in Seq(EntriesAt(p)) /\ Len(r) = Len(s)
  BY RowType
<1>3. e \in EntriesAt(p)
  BY DEF EntriesAt, GoalEntries, NewJavaGoalWithPriority
<1>4. DOMAIN t = 1 .. Len(s) + 1 /\ t = [k \in DOMAIN t |-> t[k]]
  BY <1>1, Zenon DEF Row
<1>5. ASSUME NEW k \in 1 .. Len(s) PROVE t[k] = r[k]
  <2>1. k \in 1 .. Len(s) + 1
    BY <1>1
  <2>2. t[k] = NewJavaGoalWithPriority(p, Append(s, g)[k])
    BY <1>1, <2>1, Zenon DEF Row
  <2>3. r[k] = NewJavaGoalWithPriority(p, s[k])
    BY <1>1, Zenon DEF Row
  <2> QED
    BY <1>1, <2>2, <2>3, Zenon
<1>6. t[Len(s) + 1] = e
  <2>1. Len(s) + 1 \in 1 .. Len(s) + 1
    BY <1>1
  <2> QED
    BY <1>1, <2>1, Zenon DEF Row
<1> HIDE DEF r, t, e
<1>7. t = Append(r, e)
  BY <1>2, <1>3, <1>4, <1>5, <1>6, IsAppend
<1> QED
  BY <1>7 DEF r, t, e

LEMMA RowEmpty == \A p : Row(p, <<>>) = <<>>
BY DEF Row

\* Filtering a row is filtering its goals.
LEMMA RowThose ==
  ASSUME NEW p \in Priorities, NEW T, NEW U,
         \A g \in Goals : NewJavaGoalWithPriority(p, g) \in T <=> g \in U
  PROVE  \A s \in Seq(Goals) : Those(Row(p, s), T) = Row(p, Those(s, U))
<1> DEFINE P == {s \in Seq(Goals) : Those(Row(p, s), T) = Row(p, Those(s, U))}
<1>1. <<>> \in P
  <2>1. Those(Row(p, <<>>), T) = Row(p, Those(<<>>, U))
    BY RowEmpty, ThoseEmpty
  <2> QED
    BY <2>1, EmptySeq
<1>2. ASSUME NEW s \in Seq(Goals), NEW g \in Goals, s \in P PROVE Append(s, g) \in P
  <2> DEFINE e == NewJavaGoalWithPriority(p, g)
  <2>1. Row(p, s) \in Seq(EntriesAt(p)) /\ e \in EntriesAt(p)
    BY RowType DEF EntriesAt, GoalEntries, NewJavaGoalWithPriority
  <2> HIDE DEF e
  <2>2. Those(Append(Row(p, s), e), T) = Those(Row(p, s), T) \o One(e, T)
    BY <2>1, ThoseAppend
  <2>3. Those(Append(s, g), U) = Those(s, U) \o One(g, U)
    BY ThoseAppend
  <2>4. Row(p, Append(s, g)) = Append(Row(p, s), e)
    BY RowAppend DEF e
  <2>5. PICK h \in Seq(Goals) : h = Those(s, U)
    BY ThoseType
  <2>6. Row(p, h) \in Seq(EntriesAt(p))
    BY RowType
  <2>7. Those(Row(p, s), T) = Row(p, h)
    BY <1>2, <2>5
  <2>8. e \in T <=> g \in U
    BY DEF e
  <2>9. Those(Row(p, Append(s, g)), T) = Row(p, Those(Append(s, g), U))
    <3>1. CASE g \in U
      <4>1. One(g, U) = <<g>> /\ One(e, T) = <<e>>
        BY <2>8, <3>1 DEF One
      <4>2. PICK k \in Seq(EntriesAt(p)) : k = Row(p, h)
        BY <2>6
      <4>3. h \o <<g>> = Append(h, g) /\ k \o <<e>> = Append(k, e)
        BY <2>1, AppendIsConcat
      <4>4. Row(p, Append(h, g)) = Append(Row(p, h), e)
        BY RowAppend DEF e
      <4> QED
        BY <2>2, <2>3, <2>4, <2>5, <2>7, <4>1, <4>2, <4>3, <4>4, Zenon
    <3>2. CASE g \notin U
      <4>1. One(g, U) = <<>> /\ One(e, T) = <<>>
        BY <2>8, <3>2 DEF One
      <4>2. PICK k \in Seq(EntriesAt(p)) : k = Row(p, h)
        BY <2>6
      <4>3. h \o <<>> = h /\ k \o <<>> = k
        BY ConcatEmptySeq
      <4> QED
        BY <2>2, <2>3, <2>4, <2>5, <2>7, <4>1, <4>2, <4>3, Zenon
    <3> QED
      BY <3>1, <3>2
  <2> QED
    BY <2>9, AppendProperties
<1>3. Seq(Goals) \subseteq P
  <2> HIDE DEF P
  <2> QED
    BY <1>1, <1>2, SeqInduction
<1> QED
  BY <1>3

\* What the list has of any set is the list of a part of each vector.
Filtered(gs, T) ==
  [p \in Priorities |-> Those(gs[p], {g \in Goals : NewJavaGoalWithPriority(p, g) \in T})]

LEMMA FilteredType ==
  ASSUME NEW gs \in Stores(Goals), NEW T
  PROVE  Filtered(gs, T) \in Stores(Goals)
<1>1. ASSUME NEW p \in Priorities
      PROVE  Those(gs[p], {g \in Goals : NewJavaGoalWithPriority(p, g) \in T}) \in Seq(Goals)
  BY ThoseType DEF Stores
<1> QED
  BY <1>1 DEF Filtered, Stores

\* Selecting entries of the list is selecting goals of the vectors.
LEMMA ThoseConverted ==
  ASSUME NEW gs \in Stores(Goals), NEW T
  PROVE  Those(ConvertGoalsToJava(gs), T) = ConvertGoalsToJava(Filtered(gs, T))
<1>1. PICK l \in Seq(GoalEntries) : l = ConvertGoalsToJava(gs) /\ Sorted(l)
  BY ConvertSorted
<1>2. PICK m \in Seq(GoalEntries) : m = Those(l, T) /\ Sorted(m)
  BY <1>1, ThoseType, ThoseSorted, EntriesRanked
<1>3. ASSUME NEW p \in Priorities
      PROVE  Those(m, At(GoalEntries, p)) = Row(p, Filtered(gs, T)[p])
  <2> DEFINE U == {g \in Goals : NewJavaGoalWithPriority(p, g) \in T}
  <2>1. Those(Those(l, T), At(GoalEntries, p)) = Those(l, T \cap At(GoalEntries, p))
    BY ThoseThose
  <2>2. Those(Those(l, At(GoalEntries, p)), T) = Those(l, At(GoalEntries, p) \cap T)
    BY ThoseThose
  <2>3. T \cap At(GoalEntries, p) = At(GoalEntries, p) \cap T
    OBVIOUS
  <2>4. Those(l, At(GoalEntries, p)) = Row(p, gs[p])
    BY <1>1, ConvertAt
  <2>5. Filtered(gs, T)[p] = Those(gs[p], U)
    BY Zenon DEF Filtered
  <2>6. gs[p] \in Seq(Goals)
    BY DEF Stores
  <2>7. \A g \in Goals : NewJavaGoalWithPriority(p, g) \in T <=> g \in U
    OBVIOUS
  <2> HIDE DEF U
  <2>8. Those(Row(p, gs[p]), T) = Row(p, Those(gs[p], U))
    BY <2>6, <2>7, RowThose
  <2> QED
    BY <1>2, <2>1, <2>2, <2>3, <2>4, <2>5, <2>8, Zenon
<1>4. m = ConvertGoalsToJava(Filtered(gs, T))
  BY <1>2, <1>3, FilteredType, ConvertUnique
<1> QED
  BY <1>1, <1>2, <1>4

-----------------------------------------------------------------------------
(* What operations on a vector do to its row. *)

RowJoins(p, s, t)    == Row(p, s \o t) = Row(p, s) \o Row(p, t)
RowCuts(p, s, m, n)  == Row(p, SubSeq(s, m, n)) = SubSeq(Row(p, s), m, n)

LEMMA RowOfConcat ==
  ASSUME NEW p \in Priorities, NEW s \in Seq(Goals)
  PROVE  \A t \in Seq(Goals) : RowJoins(p, s, t)
<1> DEFINE P == {t \in Seq(Goals) : RowJoins(p, s, t)}
<1>0. PICK r \in Seq(EntriesAt(p)) : r = Row(p, s)
  BY RowType
<1>1. <<>> \in P
  <2>1. s \o <<>> = s /\ r \o <<>> = r
    BY ConcatEmptySeq
  <2>2. Row(p, <<>>) = <<>>
    BY RowEmpty
  <2>3. RowJoins(p, s, <<>>)
    BY <1>0, <2>1, <2>2, Zenon DEF RowJoins
  <2> QED
    BY <2>3, EmptySeq
<1>2. ASSUME NEW t \in Seq(Goals), NEW g \in Goals, t \in P PROVE Append(t, g) \in P
  <2> DEFINE e == NewJavaGoalWithPriority(p, g)
  <2>1. e \in EntriesAt(p)
    BY DEF EntriesAt, GoalEntries, NewJavaGoalWithPriority
  <2> HIDE DEF e
  <2>2. PICK u \in Seq(EntriesAt(p)) : u = Row(p, t)
    BY RowType
  <2>3. PICK st \in Seq(Goals) : Joined(st, s, t)
    BY Joins
  <2>4. Row(p, Append(t, g)) = Append(u, e)
    BY <2>2, RowAppend DEF e
  <2>5. Row(p, Append(st, g)) = Append(Row(p, st), e)
    BY RowAppend DEF e
  <2>6. Row(p, st) = r \o u
    BY <1>0, <1>2, <2>2, <2>3, Zenon DEF RowJoins, Joined
  <2>7. s \o Append(t, g) = Append(st, g)
    <3>1. <<g>> \in Seq(Goals)
      OBVIOUS
    <3>2. Associated(s, t, <<g>>)
      BY <3>1, Associates
    <3>3. t \o <<g>> = Append(t, g) /\ st \o <<g>> = Append(st, g)
      BY AppendIsConcat
    <3> QED
      BY <2>3, <3>2, <3>3, Zenon DEF Associated, Joined
  <2>8. r \o Append(u, e) = Append(r \o u, e)
    <3>1. <<e>> \in Seq(EntriesAt(p))
      BY <2>1
    <3>2. Associated(r, u, <<e>>)
      BY <3>1, Associates
    <3>3. PICK v \in Seq(EntriesAt(p)) : Joined(v, r, u)
      BY Joins
    <3>4. u \o <<e>> = Append(u, e) /\ v \o <<e>> = Append(v, e)
      BY <2>1, AppendIsConcat
    <3> QED
      BY <3>2, <3>3, <3>4, Zenon DEF Associated, Joined
  <2>9. RowJoins(p, s, Append(t, g))
    BY <1>0, <2>4, <2>5, <2>6, <2>7, <2>8, Zenon DEF RowJoins
  <2> QED
    BY <2>9, AppendProperties
<1>3. Seq(Goals) \subseteq P
  <2> HIDE DEF P
  <2> QED
    BY <1>1, <1>2, SeqInduction
<1> QED
  BY <1>3

LEMMA RowOfPart ==
  ASSUME NEW p \in Priorities, NEW s \in Seq(Goals), NEW m \in Nat \ {0}, NEW n \in Nat,
         n <= Len(s)
  PROVE  RowCuts(p, s, m, n)
<1> DEFINE part == SubSeq(s, m, n)
<1> DEFINE r == Row(p, s)
<1> DEFINE cut == SubSeq(r, m, n)
<1>0. r \in Seq(EntriesAt(p)) /\ Len(r) = Len(s) /\ DOMAIN r = DOMAIN s
  BY RowType
<1>1. DOMAIN s = 1 .. Len(s) /\ Len(s) \in Nat
  BY LenProperties
<1>2. \A i \in m .. n : s[i] \in Goals
  BY ElementOfSeq
<1>3. /\ part \in Seq(Goals) /\ Len(part) = (IF m <= n THEN n - m + 1 ELSE 0)
      /\ \A i \in 1 .. n - m + 1 : part[i] = s[m + i - 1]
  BY <1>2, SubSeqProperties
<1>4. Row(p, part) \in Seq(EntriesAt(p)) /\ Len(Row(p, part)) = Len(part)
        /\ DOMAIN Row(p, part) = DOMAIN part
  BY <1>3, RowType
<1>5. /\ cut \in Seq(EntriesAt(p)) /\ Len(cut) = (IF m <= n THEN n - m + 1 ELSE 0)
      /\ \A i \in 1 .. n - m + 1 : cut[i] = r[m + i - 1]
  <2> HIDE DEF r
  <2>1. \A i \in m .. n : r[i] \in EntriesAt(p)
    BY <1>0, <1>1, ElementOfSeq
  <2> QED
    BY <2>1, SubSeqProperties
<1>6. ASSUME NEW i \in 1 .. Len(Row(p, part)) PROVE Row(p, part)[i] = cut[i]
  <2>1. i \in 1 .. n - m + 1 /\ m + i - 1 \in 1 .. Len(s) /\ i \in 1 .. Len(part)
    <3> HIDE DEF part
    <3> QED
      BY <1>1, <1>3, <1>4
  <2>2. DOMAIN part = 1 .. Len(part)
    BY <1>3, LenProperties
  <2>3. Row(p, part)[i] = NewJavaGoalWithPriority(p, part[i])
    <3> HIDE DEF part
    <3> QED
      BY <2>1, <2>2, Zenon DEF Row
  <2>4. r[m + i - 1] = NewJavaGoalWithPriority(p, s[m + i - 1])
    BY <1>1, <2>1, Zenon DEF Row
  <2> HIDE DEF part, r, cut
  <2> QED
    BY <1>3, <1>5, <2>1, <2>3, <2>4, Zenon
<1> HIDE DEF part, r, cut
<1>7. Row(p, part) = cut
  BY <1>3, <1>4, <1>5, <1>6, SeqEqual
<1> QED
  BY <1>7, Zenon DEF RowCuts, part, r, cut

Persistent == {e \in GoalEntries : HasPersistentGoal(e)}

LEMMA RowKept ==
  ASSUME NEW p \in Priorities, NEW s \in Seq(Goals)
  PROVE  Row(p, Kept(s)) = Those(Row(p, s), Persistent)
<1>1. ASSUME NEW g \in Goals
      PROVE  NewJavaGoalWithPriority(p, g) \in Persistent
               <=> g \in {h \in Goals : Parse[h.text].persistent}
  <2>1. NewJavaGoalWithPriority(p, g).goal.fact = g.text
    BY DEF NewJavaGoalWithPriority, NewJavaGoal
  <2>2. NewJavaGoalWithPriority(p, g) \in GoalEntries
    BY DEF GoalEntries
  <2> QED
    BY <2>1, <2>2, Zenon DEF Persistent, HasPersistentGoal
<1> QED
  BY <1>1, RowThose DEF Kept

\* A row whose first k goals were examined.
RowExpires(p, s, k) ==
  Row(p, KeptAhead(s, k))
    = Those(SubSeq(Row(p, s), 1, k), Persistent) \o SubSeq(Row(p, s), k + 1, Len(Row(p, s)))

LEMMA RowKeptAhead ==
  ASSUME NEW p \in Priorities, NEW s \in Seq(Goals), NEW k \in 0 .. Len(s)
  PROVE  RowExpires(p, s, k)
<1>1. /\ k \in Nat /\ k <= Len(s) /\ Len(s) <= Len(s) /\ k + 1 \in Nat \ {0} /\ 1 \in Nat \ {0}
      /\ Len(s) \in Nat
  BY LenProperties
<1>2. PICK a \in Seq(Goals) : IsPart(a, s, 1, k)
  BY <1>1, Parts
<1>3. PICK b \in Seq(Goals) : IsPart(b, s, k + 1, Len(s))
  BY <1>1, Parts
<1>4. PICK c \in Seq(Goals) : c = Kept(a)
  BY KeptType
<1>5. RowJoins(p, c, b)
  BY RowOfConcat
<1>6. RowCuts(p, s, 1, k) /\ RowCuts(p, s, k + 1, Len(s))
  BY <1>1, RowOfPart
<1>7. Row(p, Kept(a)) = Those(Row(p, a), Persistent)
  BY RowKept
<1>8. Len(Row(p, s)) = Len(s)
  BY RowType
<1> QED
  BY <1>2, <1>3, <1>4, <1>5, <1>6, <1>7, <1>8, Zenon
     DEF IsPart, RowJoins, RowCuts, RowExpires, KeptAhead

RowLoses(p, s, i) == Row(p, RemoveAt(s, i)) = RemoveAt(Row(p, s), i)

LEMMA RowRemoveAt ==
  ASSUME NEW p \in Priorities, NEW s \in Seq(Goals), NEW i \in 1 .. Len(s)
  PROVE  RowLoses(p, s, i)
<1>1. /\ i - 1 \in Nat /\ i - 1 <= Len(s) /\ Len(s) <= Len(s) /\ i + 1 \in Nat \ {0}
      /\ 1 \in Nat \ {0} /\ Len(s) \in Nat
  BY LenProperties
<1>2. PICK a \in Seq(Goals) : IsPart(a, s, 1, i - 1)
  BY <1>1, Parts
<1>3. PICK b \in Seq(Goals) : IsPart(b, s, i + 1, Len(s))
  BY <1>1, Parts
<1>5. RowJoins(p, a, b)
  BY RowOfConcat
<1>6. RowCuts(p, s, 1, i - 1) /\ RowCuts(p, s, i + 1, Len(s))
  BY <1>1, RowOfPart
<1>8. Len(Row(p, s)) = Len(s)
  BY RowType
<1> QED
  BY <1>2, <1>3, <1>5, <1>6, <1>8, Zenon DEF IsPart, RowJoins, RowCuts, RowLoses, RemoveAt

-----------------------------------------------------------------------------
(* What operations on the vectors do to the list. *)

LEMMA ListSets ==
  ASSUME NEW p
  PROVE  /\ List!Above(p) = {e \in GoalEntries : e.priority > p}
         /\ List!Below(p) = {e \in GoalEntries : e.priority < p}
BY DEF List!Above, List!Below

LEMMA ListThose ==
  ASSUME NEW l, NEW T
  PROVE  List!Those(l, T) = Those(l, T)
BY Zenon DEF List!Those, List!FlattenSeq, Those, FlattenSeq

LEMMA ListRemoveAt ==
  ASSUME NEW l, NEW i
  PROVE  List!RemoveAt(l, i) = RemoveAt(l, i)
BY Zenon DEF List!RemoveAt, RemoveAt

FrontOf(l, s, p) == Those(l, List!Above(p)) \o s \o Those(l, GoalEntries \ List!Above(p))
BackOf(l, e)     ==
  Those(l, GoalEntries \ List!Below(e.priority)) \o <<e>> \o Those(l, List!Below(e.priority))

LEMMA ListInsertFront ==
  ASSUME NEW l, NEW s, NEW p
  PROVE  List!InsertFront(l, s, p) = FrontOf(l, s, p)
<1>1. List!Those(l, List!Above(p)) = Those(l, List!Above(p))
  BY ListThose
<1>2. List!Those(l, GoalEntries \ List!Above(p)) = Those(l, GoalEntries \ List!Above(p))
  BY ListThose
<1> QED
  BY <1>1, <1>2, Zenon DEF List!InsertFront, FrontOf

LEMMA ListInsertBack ==
  ASSUME NEW l, NEW e
  PROVE  List!InsertBack(l, e) = BackOf(l, e)
<1> DEFINE p == e.priority
<1>1. List!Those(l, List!Below(p)) = Those(l, List!Below(p))
  BY ListThose
<1>2. List!Those(l, GoalEntries \ List!Below(p)) = Those(l, GoalEntries \ List!Below(p))
  BY ListThose
<1> QED
  BY <1>1, <1>2, Zenon DEF List!InsertBack, BackOf

\* A goal pushed in front of its vector.
LEMMA ConvertPushedFront ==
  ASSUME NEW gs \in Stores(Goals), NEW p \in Priorities, NEW s \in Seq(Goals)
  PROVE  ConvertGoalsToJava(PushedFront(gs, p, s))
           = List!InsertFront(ConvertGoalsToJava(gs), Row(p, s), p)
<1> DEFINE E == GoalEntries
<1> DEFINE T == List!Above(p)
<1>1. PICK l \in Seq(E) : l = ConvertGoalsToJava(gs) /\ Sorted(l)
  BY ConvertSorted
<1>2. PICK r \in Seq(At(E, p)) : r = Row(p, s)
  <2>1. EntriesAt(p) = At(E, p)
    BY DEF EntriesAt, At
  <2> QED
    BY <2>1, RowType
<1>3. /\ T \in SUBSET E /\ \A x \in T : x.priority >= p
      /\ \A y \in E \ T : p >= y.priority
      /\ T \cap At(E, p) = {} /\ At(E, p) \ T = At(E, p) /\ p \in Int
  BY ListSets, EntriesRanked, PrioritiesAssumption DEF Ranked, At
<1> DEFINE m == Those(l, T) \o r \o Those(l, E \ T)
<1>4. /\ m \in Seq(E) /\ Sorted(m)
      /\ Those(m, At(E, p)) = Those(l, T \cap At(E, p)) \o r \o Those(l, At(E, p) \ T)
      /\ \A q \in Int : q # p => Those(m, At(E, q)) = Those(l, At(E, q))
  <2> HIDE DEF T
  <2>1. Insertion(E, l, T, r, p)
    <3> HIDE DEF m
    <3> QED
      BY <1>3, EntriesRanked, Inserted
  <2> QED
    BY <1>1, <2>1, Zenon DEF Insertion
<1>5. m = List!InsertFront(ConvertGoalsToJava(gs), Row(p, s), p)
  BY <1>1, <1>2, ListInsertFront, Zenon DEF FrontOf
<1> HIDE DEF m, T
<1>6. ASSUME NEW q \in Priorities PROVE Those(m, At(E, q)) = Row(q, PushedFront(gs, p, s)[q])
  <2>0. gs[q] \in Seq(Goals) /\ q \in Int
    BY PrioritiesAssumption DEF Stores
  <2>1. Those(l, At(E, q)) = Row(q, gs[q])
    BY <1>1, ConvertAt
  <2>2. CASE q = p
    <3>1. PushedFront(gs, p, s)[q] = s \o gs[q]
      BY <2>2 DEF PushedFront, Stores
    <3>2. RowJoins(q, s, gs[q])
      BY <2>0, RowOfConcat
    <3>3. Those(l, {}) = <<>>
      BY ThoseNone
    <3>4. <<>> \o r = r
      BY ConcatEmptySeq
    <3>5. Those(m, At(E, q)) = r \o Row(q, gs[q])
      BY <1>3, <1>4, <2>1, <2>2, <3>3, <3>4, Zenon
    <3> QED
      BY <1>2, <2>2, <3>1, <3>2, <3>5, Zenon DEF RowJoins
  <2>3. CASE q # p
    <3>1. PushedFront(gs, p, s)[q] = gs[q]
      BY <2>3 DEF PushedFront, Stores
    <3> QED
      BY <1>4, <2>0, <2>1, <2>3, <3>1, Zenon
  <2> QED
    BY <2>2, <2>3
<1>7. m = ConvertGoalsToJava(PushedFront(gs, p, s))
  BY <1>4, <1>6, PushedFrontType, ConvertUnique
<1> QED
  BY <1>5, <1>7

\* A goal pushed at the back of its vector.
LEMMA ConvertAppended ==
  ASSUME NEW gs \in Stores(Goals), NEW p \in Priorities, NEW g \in Goals
  PROVE  ConvertGoalsToJava([gs EXCEPT ![p] = Append(@, g)])
           = List!InsertBack(ConvertGoalsToJava(gs), NewJavaGoalWithPriority(p, g))
<1> DEFINE E == GoalEntries
<1> DEFINE T == E \ List!Below(p)
<1> DEFINE e == NewJavaGoalWithPriority(p, g)
<1> DEFINE new == [gs EXCEPT ![p] = Append(@, g)]
<1>1. PICK l \in Seq(E) : l = ConvertGoalsToJava(gs) /\ Sorted(l)
  BY ConvertSorted
<1>2. e.priority = p /\ e \in At(E, p)
  BY DEF NewJavaGoalWithPriority, GoalEntries, At
<1>3. /\ T \in SUBSET E /\ \A x \in T : x.priority >= p
      /\ \A y \in E \ T : p >= y.priority
      /\ T \cap At(E, p) = At(E, p) /\ At(E, p) \ T = {} /\ p \in Int
      /\ E \ T = List!Below(p)
  BY ListSets, EntriesRanked, PrioritiesAssumption DEF Ranked, At
<1>4. PICK r \in Seq(At(E, p)) : r = <<e>>
  <2> HIDE DEF e, new, T
  <2>1. <<e>> \in Seq(At(E, p))
    BY <1>2
  <2> QED
    BY <2>1, Zenon
<1> DEFINE m == Those(l, T) \o r \o Those(l, E \ T)
<1>5. /\ m \in Seq(E) /\ Sorted(m)
      /\ Those(m, At(E, p)) = Those(l, T \cap At(E, p)) \o r \o Those(l, At(E, p) \ T)
      /\ \A q \in Int : q # p => Those(m, At(E, q)) = Those(l, At(E, q))
  <2> HIDE DEF T
  <2>1. Insertion(E, l, T, r, p)
    <3> HIDE DEF m
    <3> QED
      BY <1>3, EntriesRanked, Inserted
  <2> QED
    BY <1>1, <2>1, Zenon DEF Insertion
<1>6. m = List!InsertBack(ConvertGoalsToJava(gs), e)
  <2> HIDE DEF e
  <2> QED
    BY <1>1, <1>2, <1>3, <1>4, ListInsertBack, Zenon DEF BackOf
<1> HIDE DEF m, T, e
<1>7. ASSUME NEW q \in Priorities PROVE Those(m, At(E, q)) = Row(q, new[q])
  <2>0. gs[q] \in Seq(Goals) /\ q \in Int
    BY PrioritiesAssumption DEF Stores
  <2>1. Those(l, At(E, q)) = Row(q, gs[q])
    BY <1>1, ConvertAt
  <2>2. CASE q = p
    <3>1. new[q] = Append(gs[q], g)
      BY <2>2 DEF Stores
    <3>2. Row(q, Append(gs[q], g)) = Append(Row(q, gs[q]), e)
      BY <2>0, <2>2, RowAppend DEF e
    <3>3. Those(l, {}) = <<>>
      BY ThoseNone
    <3>4. PICK k \in Seq(At(E, p)) : k = Row(q, gs[q])
      <4>1. EntriesAt(p) = At(E, p)
        BY DEF EntriesAt, At
      <4> QED
        BY <2>0, <2>2, <4>1, RowType
    <3>5. k \o <<e>> = Append(k, e)
      BY <1>2, AppendIsConcat
    <3>6. Append(k, e) \in Seq(At(E, p))
      BY <1>2, AppendProperties
    <3>7. Append(k, e) \o <<>> = Append(k, e)
      BY <3>6, ConcatEmptySeq
    <3>8. Those(m, At(E, q)) = k \o <<e>> \o <<>>
      BY <1>3, <1>4, <1>5, <2>1, <2>2, <3>3, <3>4, Zenon
    <3> QED
      BY <3>1, <3>2, <3>4, <3>5, <3>7, <3>8, Zenon
  <2>3. CASE q # p
    <3>1. new[q] = gs[q]
      BY <2>3 DEF Stores
    <3> QED
      BY <1>5, <2>0, <2>1, <2>3, <3>1, Zenon
  <2> QED
    BY <2>2, <2>3
<1>8. new \in Stores(Goals)
  BY AppendedType
<1> HIDE DEF new
<1>9. m = ConvertGoalsToJava(new)
  BY <1>5, <1>7, <1>8, ConvertUnique
<1> QED
  BY <1>6, <1>9 DEF new, e

\* The list around the row of one priority.
SplitsAt(gs, q, s) ==
  ConvertGoalsToJava([gs EXCEPT ![q] = s])
    = Those(ConvertGoalsToJava(gs), List!Above(q)) \o Row(q, s)
        \o Those(ConvertGoalsToJava(gs), List!Below(q))

LEMMA SplitAt ==
  ASSUME NEW gs \in Stores(Goals), NEW q \in Priorities, NEW s \in Seq(Goals)
  PROVE  SplitsAt(gs, q, s)
<1> DEFINE none == [gs EXCEPT ![q] = <<>>]
<1> DEFINE T == List!Above(q)
<1>1. none \in Stores(Goals)
  <2>1. <<>> \in Seq(Goals)
    BY EmptySeq
  <2> QED
    BY <2>1 DEF Stores
<1>2. PushedFront(none, q, s) = [gs EXCEPT ![q] = s]
  <2>1. s \o <<>> = s
    BY ConcatEmptySeq
  <2> QED
    BY <2>1 DEF PushedFront, Stores
<1>3. \A p \in Priorities : p # q => none[p] = gs[p]
  BY DEF Stores
<1>4. none[q] = <<>>
  BY DEF Stores
<1> HIDE DEF none
<1>5. ConvertGoalsToJava([gs EXCEPT ![q] = s])
        = Those(ConvertGoalsToJava(none), T) \o Row(q, s)
            \o Those(ConvertGoalsToJava(none), GoalEntries \ T)
  <2>1. ConvertGoalsToJava(PushedFront(none, q, s))
          = List!InsertFront(ConvertGoalsToJava(none), Row(q, s), q)
    BY <1>1, ConvertPushedFront
  <2> QED
    BY <1>2, <2>1, ListInsertFront, Zenon DEF FrontOf
<1>6. Filtered(none, T) = Filtered(gs, T)
  <2>1. ASSUME NEW p \in Priorities
        PROVE  Those(none[p], {g \in Goals : NewJavaGoalWithPriority(p, g) \in T})
                 = Those(gs[p], {g \in Goals : NewJavaGoalWithPriority(p, g) \in T})
    <3>1. CASE p # q
      BY <1>3, <3>1
    <3>2. CASE p = q
      <4>1. {g \in Goals : NewJavaGoalWithPriority(p, g) \in T} = {}
        BY <3>2, ListSets, PrioritiesAssumption DEF NewJavaGoalWithPriority
      <4>2. gs[p] \in Seq(Goals) /\ none[p] \in Seq(Goals)
        BY <1>1 DEF Stores
      <4>3. Those(gs[p], {}) = <<>> /\ Those(none[p], {}) = <<>>
        BY <4>2, ThoseNone
      <4> QED
        BY <4>1, <4>3, Zenon
    <3> QED
      BY <3>1, <3>2
  <2> HIDE DEF T
  <2> QED
    BY <2>1, Zenon DEF Filtered
<1>7. Filtered(none, GoalEntries \ T) = Filtered(gs, List!Below(q))
  <2>1. ASSUME NEW p \in Priorities
        PROVE  Those(none[p], {g \in Goals : NewJavaGoalWithPriority(p, g) \in GoalEntries \ T})
                 = Those(gs[p], {g \in Goals : NewJavaGoalWithPriority(p, g) \in List!Below(q)})
    <3>1. CASE p # q
      <4>1. {g \in Goals : NewJavaGoalWithPriority(p, g) \in GoalEntries \ T}
              = {g \in Goals : NewJavaGoalWithPriority(p, g) \in List!Below(q)}
        <5>1. ASSUME NEW g \in Goals
              PROVE  NewJavaGoalWithPriority(p, g) \in GoalEntries \ T
                       <=> NewJavaGoalWithPriority(p, g) \in List!Below(q)
          <6>1. NewJavaGoalWithPriority(p, g) \in GoalEntries
                  /\ NewJavaGoalWithPriority(p, g).priority = p
            BY DEF GoalEntries, NewJavaGoalWithPriority
          <6>2. p \in Int /\ q \in Int
            BY PrioritiesAssumption
          <6> QED
            BY <3>1, <6>1, <6>2, ListSets
        <5> HIDE DEF T
        <5> QED
          BY <5>1
      <4> QED
        BY <1>3, <3>1, <4>1, Zenon
    <3>2. CASE p = q
      <4>1. {g \in Goals : NewJavaGoalWithPriority(p, g) \in List!Below(q)} = {}
        BY <3>2, ListSets, PrioritiesAssumption DEF NewJavaGoalWithPriority
      <4>2. gs[p] \in Seq(Goals)
        BY DEF Stores
      <4>3. Those(gs[p], {}) = <<>>
        BY <4>2, ThoseNone
      <4>4. none[p] = <<>>
        BY <1>4, <3>2
      <4>5. Those(none[p], {g \in Goals : NewJavaGoalWithPriority(p, g) \in GoalEntries \ T}) = <<>>
        BY <4>4, ThoseEmpty, Zenon
      <4> QED
        BY <4>1, <4>3, <4>5, Zenon
    <3> QED
      BY <3>1, <3>2
  <2> HIDE DEF T
  <2> QED
    BY <2>1, Zenon DEF Filtered
<1>8. Those(ConvertGoalsToJava(none), T) = Those(ConvertGoalsToJava(gs), T)
  BY <1>1, <1>6, ThoseConverted
<1>9. Those(ConvertGoalsToJava(none), GoalEntries \ T)
        = Those(ConvertGoalsToJava(gs), List!Below(q))
  BY <1>1, <1>7, ThoseConverted
<1> QED
  BY <1>5, <1>8, <1>9, Zenon DEF SplitsAt

-----------------------------------------------------------------------------
(* AddAll, the recursive function of the abstract list. *)

AddedTo(f, l, batch, n) ==
  IF n = 0 THEN l ELSE List!InsertBack(f[n - 1], batch[n])
IsAdding(f, l, batch, m) == f = [n \in 0 .. m |-> AddedTo(f, l, batch, n)]

LEMMA IsAddingAt ==
  ASSUME NEW f, NEW l, NEW batch, NEW m \in Nat, IsAdding(f, l, batch, m), NEW n \in 0 .. m
  PROVE  f[n] = AddedTo(f, l, batch, n)
BY DEF IsAdding

LEMMA AddingExists ==
  ASSUME NEW l, NEW batch
  PROVE  \A m \in Nat : \E f : IsAdding(f, l, batch, m)
<1> DEFINE N == {m \in Nat : \E f : IsAdding(f, l, batch, m)}
<1>1. 0 \in N
  <2> DEFINE e == [n \in 0 .. 0 |-> l]
  <2>1. \A n \in 0 .. 0 : AddedTo(e, l, batch, n) = l
    BY DEF AddedTo
  <2>2. IsAdding(e, l, batch, 0)
    BY <2>1 DEF IsAdding
  <2> QED
    BY <2>2
<1>2. ASSUME NEW m \in Nat, m \in N PROVE m + 1 \in N
  <2>1. PICK f : IsAdding(f, l, batch, m)
    BY <1>2
  <2> DEFINE g == [n \in 0 .. m + 1 |-> AddedTo(f, l, batch, n)]
  <2>2. \A n \in 0 .. m + 1 : g[n] = AddedTo(f, l, batch, n)
    OBVIOUS
  <2>3. g = [n \in 0 .. m + 1 |-> AddedTo(f, l, batch, n)]
    OBVIOUS
  <2> HIDE DEF g
  <2>4. \A n \in 0 .. m : g[n] = f[n]
    BY <2>1, <2>2, IsAddingAt
  <2>5. \A n \in 0 .. m + 1 : AddedTo(g, l, batch, n) = AddedTo(f, l, batch, n)
    <3> SUFFICES ASSUME NEW n \in 0 .. m + 1, n # 0
                 PROVE  AddedTo(g, l, batch, n) = AddedTo(f, l, batch, n)
      BY DEF AddedTo
    <3>1. n - 1 \in 0 .. m
      OBVIOUS
    <3>2. g[n - 1] = f[n - 1]
      BY <2>4, <3>1
    <3> QED
      BY <3>2, Zenon DEF AddedTo
  <2>6. IsAdding(g, l, batch, m + 1)
    BY <2>3, <2>5 DEF IsAdding
  <2> QED
    BY <2>6
<1> QED
  <2> HIDE DEF N
  <2>1. Nat \subseteq N
    BY <1>1, <1>2, SetInduction
  <2> QED
    BY <2>1 DEF N

\* Two of them agree as far as their batches do.
LEMMA AddingUnique ==
  ASSUME NEW l, NEW b, NEW c, NEW m \in Nat, NEW n \in Nat, m <= n,
         NEW f, NEW g, IsAdding(f, l, b, m), IsAdding(g, l, c, n),
         \A i \in 1 .. m : b[i] = c[i]
  PROVE  f[m] = g[m]
<1> DEFINE N == {k \in Nat : k <= m => f[k] = g[k]}
<1>0. /\ \A i \in 0 .. m : f[i] = AddedTo(f, l, b, i)
      /\ \A i \in 0 .. n : g[i] = AddedTo(g, l, c, i)
  BY IsAddingAt
<1>1. 0 \in N
  BY <1>0 DEF AddedTo
<1>2. ASSUME NEW k \in Nat, k \in N PROVE k + 1 \in N
  <2> SUFFICES ASSUME k + 1 <= m PROVE f[k + 1] = g[k + 1]
    OBVIOUS
  <2>1. k + 1 \in 0 .. m /\ k + 1 \in 0 .. n /\ k + 1 # 0 /\ k + 1 \in 1 .. m /\ (k + 1) - 1 = k
    OBVIOUS
  <2>2. f[(k + 1) - 1] = g[(k + 1) - 1] /\ b[k + 1] = c[k + 1]
    BY <1>2, <2>1
  <2>3. AddedTo(f, l, b, k + 1) = AddedTo(g, l, c, k + 1)
    BY <2>1, <2>2, Zenon DEF AddedTo
  <2> QED
    BY <1>0, <2>1, <2>3
<1>3. Nat \subseteq N
  <2> HIDE DEF N
  <2> QED
    BY <1>1, <1>2, SetInduction
<1> QED
  BY <1>3

LEMMA AddAllIs ==
  ASSUME NEW l, NEW batch, Len(batch) \in Nat,
         NEW f, IsAdding(f, l, batch, Len(batch))
  PROVE  List!AddAll(l, batch) = f[Len(batch)]
<1> DEFINE F == CHOOSE g : IsAdding(g, l, batch, Len(batch))
<1>1. IsAdding(F, l, batch, Len(batch))
  OBVIOUS
<1>2. List!AddAll(l, batch) = F[Len(batch)]
  BY Zenon DEF List!AddAll, IsAdding, AddedTo
<1> HIDE DEF F
<1>3. F[Len(batch)] = f[Len(batch)]
  <2>1. Len(batch) <= Len(batch) /\ \A i \in 1 .. Len(batch) : batch[i] = batch[i]
    OBVIOUS
  <2> QED
    BY <1>1, <2>1, AddingUnique
<1> QED
  BY <1>2, <1>3

LEMMA AddAllNone ==
  ASSUME NEW l
  PROVE  List!AddAll(l, <<>>) = l
<1>0. Len(<<>>) = 0
  OBVIOUS
<1>1. PICK f : IsAdding(f, l, <<>>, 0)
  BY AddingExists
<1>2. f[0] = l
  <2>1. f[0] = AddedTo(f, l, <<>>, 0)
    BY <1>1, IsAddingAt
  <2> QED
    BY <2>1 DEF AddedTo
<1>3. PICK b : b = <<>> /\ Len(b) = 0 /\ IsAdding(f, l, b, 0)
  BY <1>0, <1>1
<1>4. List!AddAll(l, b) = f[Len(b)]
  <2>1. Len(b) \in Nat /\ IsAdding(f, l, b, Len(b))
    BY <1>3
  <2> QED
    BY <2>1, AddAllIs
<1> QED
  BY <1>2, <1>3, <1>4, Zenon

LEMMA AddAllMore ==
  ASSUME NEW l, NEW S, NEW batch \in Seq(S), NEW e \in S
  PROVE  List!AddAll(l, Append(batch, e)) = List!InsertBack(List!AddAll(l, batch), e)
<1> DEFINE n == Len(batch)
<1> DEFINE more == Append(batch, e)
<1>1. /\ n \in Nat /\ more \in Seq(S) /\ more[n + 1] = e /\ Len(more) = n + 1
      /\ \A i \in 1 .. n : more[i] = batch[i]
  BY AppendDomain, AppendProperties
<1> HIDE DEF more
<1>2. PICK f : IsAdding(f, l, batch, n)
  BY <1>1, AddingExists
<1>3. n + 1 \in Nat
  BY <1>1
<1>4. PICK g : IsAdding(g, l, more, n + 1)
  BY <1>3, AddingExists
<1>5. List!AddAll(l, batch) = f[n]
  BY <1>1, <1>2, AddAllIs
<1>6. List!AddAll(l, more) = g[n + 1]
  <2>1. IsAdding(g, l, more, Len(more)) /\ Len(more) \in Nat
    BY <1>1, <1>3, <1>4
  <2>2. List!AddAll(l, more) = g[Len(more)]
    BY <2>1, AddAllIs
  <2> QED
    BY <1>1, <2>2
<1>7. f[n] = g[n]
  <2>1. n <= n + 1 /\ \A i \in 1 .. n : batch[i] = more[i]
    BY <1>1
  <2> HIDE DEF n
  <2> QED
    BY <1>1, <1>2, <1>3, <1>4, <2>1, AddingUnique
<1>8. g[n + 1] = List!InsertBack(g[n], e)
  <2>1. n + 1 \in 0 .. n + 1 /\ n + 1 # 0 /\ (n + 1) - 1 = n
    BY <1>1
  <2> HIDE DEF n
  <2>2. g[n + 1] = AddedTo(g, l, more, n + 1)
    BY <1>3, <1>4, <2>1, IsAddingAt
  <2> QED
    BY <1>1, <2>1, <2>2, Zenon DEF AddedTo
<1> QED
  BY <1>5, <1>6, <1>7, <1>8 DEF more

-----------------------------------------------------------------------------
(* Batches: an array converted to the library's map and pushed back. *)

LEMMA AsSeenAppend ==
  ASSUME NEW b \in Seq(JavaEntries), NEW e \in JavaEntries
  PROVE  /\ AsSeen(Append(b, e))
              = Append(AsSeen(b), NewJavaGoalWithPriority(e.priority, ToGoal(e.goal)))
         /\ AsSeen(b) \in Seq(GoalEntries)
         /\ NewJavaGoalWithPriority(e.priority, ToGoal(e.goal)) \in GoalEntries
<1> DEFINE c == Append(b, e)
<1> DEFINE s == AsSeen(b)
<1> DEFINE t == AsSeen(c)
<1> DEFINE d == NewJavaGoalWithPriority(e.priority, ToGoal(e.goal))
<1>1. /\ c \in Seq(JavaEntries) /\ DOMAIN c = 1 .. Len(b) + 1 /\ c[Len(b) + 1] = e
      /\ \A k \in 1 .. Len(b) : c[k] = b[k]
      /\ DOMAIN b = 1 .. Len(b) /\ Len(b) \in Nat
  BY AppendDomain
<1>2. \A x \in JavaEntries : NewJavaGoalWithPriority(x.priority, ToGoal(x.goal)) \in GoalEntries
  <2>1. \A x \in JavaEntries : x.priority \in Priorities /\ ToGoal(x.goal) \in Goals
    BY ToGoalType DEF JavaEntries
  <2> QED
    BY <2>1 DEF GoalEntries
<1> HIDE DEF c
<1>3. /\ DOMAIN s = 1 .. Len(b) /\ s = [k \in 1 .. Len(b) |-> s[k]]
      /\ \A k \in 1 .. Len(b) : s[k] = NewJavaGoalWithPriority(b[k].priority, ToGoal(b[k].goal))
  BY <1>1, Zenon DEF AsSeen, Seen
<1>4. /\ DOMAIN t = 1 .. Len(b) + 1 /\ t = [k \in DOMAIN t |-> t[k]]
      /\ \A k \in 1 .. Len(b) + 1 :
           t[k] = NewJavaGoalWithPriority(c[k].priority, ToGoal(c[k].goal))
  BY <1>1, Zenon DEF AsSeen, Seen
<1>5. \A k \in 1 .. Len(b) : s[k] \in GoalEntries
  <2> SUFFICES ASSUME NEW k \in 1 .. Len(b) PROVE s[k] \in GoalEntries
    OBVIOUS
  <2>1. b[k] \in JavaEntries
    BY ElementOfSeq
  <2> HIDE DEF s
  <2> QED
    BY <1>2, <1>3, <2>1
<1> HIDE DEF s, t, d
<1>6. s \in Seq(GoalEntries) /\ Len(s) = Len(b)
  BY <1>1, <1>3, <1>5, FunctionIsSeq
<1>7. d \in GoalEntries
  BY <1>2 DEF d
<1>8. t = Append(s, d)
  <2>1. t[Len(s) + 1] = d
    <3>1. Len(b) + 1 \in 1 .. Len(b) + 1
      BY <1>1
    <3> QED
      BY <1>1, <1>4, <1>6, <3>1, Zenon DEF d
  <2>2. \A k \in 1 .. Len(s) : t[k] = s[k]
    <3>1. \A k \in 1 .. Len(b) : k \in 1 .. Len(b) + 1
      BY <1>1
    <3> QED
      BY <1>1, <1>3, <1>4, <1>6, <3>1, Zenon
  <2>3. DOMAIN t = 1 .. Len(s) + 1 /\ t = [k \in DOMAIN t |-> t[k]]
    BY <1>4, <1>6
  <2> QED
    BY <1>6, <1>7, <2>1, <2>2, <2>3, IsAppend
<1> QED
  BY <1>6, <1>7, <1>8 DEF s, t, d, c

\* An entry more is a goal more at the end of the vector of its priority.
LEMMA GroupedAppend ==
  ASSUME NEW b \in Seq(JavaEntries), NEW e \in JavaEntries
  PROVE  ToGoalsWithPriorities(Append(b, e))
           = [ToGoalsWithPriorities(b) EXCEPT ![e.priority] = Append(@, ToGoal(e.goal))]
<1> DEFINE T(p) == [priority : {p}, goal : JavaGoals]
<1> DEFINE Of(s) == [i \in DOMAIN s |-> ToGoalWithPriority(s[i]).goal]
<1> DEFINE old == ToGoalsWithPriorities(b)
<1> DEFINE new == ToGoalsWithPriorities(Append(b, e))
<1>1. \A p \in Priorities : old[p] = Of(Those(b, T(p))) /\ new[p] = Of(Those(Append(b, e), T(p)))
  BY Zenon DEF ToGoalsWithPriorities
<1>2. e.priority \in Priorities /\ e.goal \in JavaGoals
  BY DEF JavaEntries
<1>3. ASSUME NEW p \in Priorities
      PROVE  new[p] = IF p = e.priority THEN Append(old[p], ToGoal(e.goal)) ELSE old[p]
  <2>1. PICK s \in Seq(JavaEntries) : s = Those(b, T(p))
    BY ThoseType
  <2>2. Those(Append(b, e), T(p)) = s \o One(e, T(p))
    BY <2>1, ThoseAppend
  <2>3. CASE p = e.priority
    <3>1. e \in T(p)
      BY <1>2, <2>3 DEF JavaEntries
    <3>2. One(e, T(p)) = <<e>>
      <4> HIDE DEF T
      <4> QED
        BY <3>1 DEF One
    <3>3. s \o <<e>> = Append(s, e)
      BY AppendIsConcat
    <3>4. Those(Append(b, e), T(p)) = Append(s, e)
      <4> HIDE DEF T
      <4> QED
        BY <2>2, <3>2, <3>3, Zenon
    <3>5. Of(Append(s, e)) = Append(Of(s), ToGoal(e.goal))
      <4> DEFINE o == Of(s)
      <4> DEFINE t == Of(Append(s, e))
      <4>1. /\ Append(s, e) \in Seq(JavaEntries) /\ DOMAIN Append(s, e) = 1 .. Len(s) + 1
            /\ Append(s, e)[Len(s) + 1] = e
            /\ \A k \in 1 .. Len(s) : Append(s, e)[k] = s[k]
            /\ DOMAIN s = 1 .. Len(s) /\ Len(s) \in Nat
        BY AppendDomain
      <4>2. \A x \in JavaEntries : ToGoalWithPriority(x).goal = ToGoal(x.goal)
                                   /\ ToGoal(x.goal) \in Goals
        BY ToGoalType DEF ToGoalWithPriority, JavaEntries
      <4>3. /\ o = [i \in 1 .. Len(s) |-> o[i]]
            /\ \A i \in 1 .. Len(s) : o[i] = ToGoalWithPriority(s[i]).goal
        BY <4>1, Zenon
      <4>4. /\ DOMAIN t = 1 .. Len(s) + 1 /\ t = [i \in DOMAIN t |-> t[i]]
            /\ \A i \in 1 .. Len(s) + 1 : t[i] = ToGoalWithPriority(Append(s, e)[i]).goal
        BY <4>1, Zenon
      <4> HIDE DEF o, t
      <4>5. \A i \in 1 .. Len(s) : o[i] \in Goals
        <5>1. \A i \in 1 .. Len(s) : s[i] \in JavaEntries
          BY ElementOfSeq
        <5> QED
          BY <4>2, <4>3, <5>1
      <4>6. o \in Seq(Goals) /\ Len(o) = Len(s)
        BY <4>1, <4>3, <4>5, FunctionIsSeq
      <4>7. t[Len(o) + 1] = ToGoal(e.goal)
        <5>1. Len(s) + 1 \in 1 .. Len(s) + 1
          BY <4>1
        <5> QED
          BY <4>1, <4>2, <4>4, <4>6, <5>1, Zenon
      <4>8. \A i \in 1 .. Len(o) : t[i] = o[i]
        <5>1. \A i \in 1 .. Len(s) : i \in 1 .. Len(s) + 1
          BY <4>1
        <5> QED
          BY <4>1, <4>3, <4>4, <4>6, <5>1, Zenon
      <4>9. DOMAIN t = 1 .. Len(o) + 1
        BY <4>4, <4>6
      <4>10. ToGoal(e.goal) \in Goals
        BY <4>2
      <4>11. t = Append(o, ToGoal(e.goal))
        BY <4>4, <4>6, <4>7, <4>8, <4>9, <4>10, IsAppend
      <4> QED
        BY <4>11 DEF o, t
    <3> HIDE DEF Of, T, old, new
    <3> QED
      BY <1>1, <2>1, <2>3, <3>4, <3>5, Zenon
  <2>4. CASE p # e.priority
    <3>1. One(e, T(p)) = <<>>
      BY <2>4 DEF One
    <3>2. s \o <<>> = s
      BY ConcatEmptySeq
    <3>3. Those(Append(b, e), T(p)) = s
      <4> HIDE DEF T
      <4> QED
        BY <2>2, <3>1, <3>2, Zenon
    <3> HIDE DEF Of, T, old, new
    <3> QED
      BY <1>1, <2>1, <2>4, <3>3, Zenon
  <2> QED
    BY <2>3, <2>4
<1>4. new = [p \in Priorities |-> new[p]]
  BY Zenon DEF ToGoalsWithPriorities
<1>5. [old EXCEPT ![e.priority] = Append(@, ToGoal(e.goal))]
        = [p \in Priorities |-> IF p = e.priority THEN Append(old[p], ToGoal(e.goal)) ELSE old[p]]
  <2>1. DOMAIN old = Priorities
    BY Zenon DEF ToGoalsWithPriorities
  <2> HIDE DEF old
  <2> QED
    BY <1>2, <2>1
<1> HIDE DEF old, new
<1> QED
  BY <1>3, <1>4, <1>5, Zenon DEF old, new

LEMMA GroupedNone == ToGoalsWithPriorities(<<>>) = NoGoals
<1>1. \A p \in Priorities : Those(<<>>, [priority : {p}, goal : JavaGoals]) = <<>>
  BY ThoseEmpty
<1>2. ASSUME NEW p \in Priorities PROVE ToGoalsWithPriorities(<<>>)[p] = <<>>
  <2>1. ToGoalsWithPriorities(<<>>)[p] = [i \in DOMAIN <<>> |-> ToGoalWithPriority(<<>>[i]).goal]
    BY <1>1, Zenon DEF ToGoalsWithPriorities
  <2> QED
    BY <2>1
<1>3. ToGoalsWithPriorities(<<>>) = [p \in Priorities |-> ToGoalsWithPriorities(<<>>)[p]]
  BY Zenon DEF ToGoalsWithPriorities
<1> QED
  BY <1>2, <1>3 DEF NoGoals

-----------------------------------------------------------------------------
(* A batch pushed back is the list with all its entries added. *)

LEMMA PushedBackNone ==
  ASSUME NEW gs \in Stores(Goals)
  PROVE  PushedBack(gs, NoGoals) = gs
<1>1. \A p \in Priorities : gs[p] \o <<>> = gs[p]
  BY ConcatEmptySeq DEF Stores
<1>2. PushedBack(gs, NoGoals) = [p \in Priorities |-> gs[p] \o <<>>]
  BY DEF PushedBack, NoGoals
<1>3. gs = [p \in Priorities |-> gs[p]]
  BY DEF Stores
<1> QED
  BY <1>1, <1>2, <1>3

LEMMA PushedBackAppend ==
  ASSUME NEW gs \in Stores(Goals), NEW m \in Stores(Goals), NEW p \in Priorities, NEW g \in Goals,
         NEW back, back = PushedBack(gs, m)
  PROVE  PushedBack(gs, [m EXCEPT ![p] = Append(@, g)]) = [back EXCEPT ![p] = Append(@, g)]
<1> DEFINE new == [m EXCEPT ![p] = Append(@, g)]
<1>1. back \in Stores(Goals)
  BY PushedBackType
<1>2. ASSUME NEW q \in Priorities
      PROVE  gs[q] \o new[q] = [back EXCEPT ![p] = Append(@, g)][q]
  <2>1. gs[q] \in Seq(Goals) /\ m[q] \in Seq(Goals) /\ back[q] = gs[q] \o m[q]
    BY DEF Stores, PushedBack
  <2>2. CASE q = p
    <3>1. new[q] = Append(m[q], g)
      BY <2>2 DEF Stores
    <3>2. [back EXCEPT ![p] = Append(@, g)][q] = Append(back[q], g)
      BY <1>1, <2>2 DEF Stores
    <3>4. AppendsLast(gs[q], m[q], g)
      BY <2>1, AppendLast
    <3> QED
      BY <2>1, <3>1, <3>2, <3>4, Zenon DEF AppendsLast
  <2>3. CASE q # p
    <3>1. new[q] = m[q] /\ [back EXCEPT ![p] = Append(@, g)][q] = back[q]
      BY <1>1, <2>3 DEF Stores
    <3> QED
      BY <2>1, <3>1, Zenon
  <2> QED
    BY <2>2, <2>3
<1>3. PushedBack(gs, new) = [q \in Priorities |-> gs[q] \o new[q]]
  BY Zenon DEF PushedBack
<1>4. [back EXCEPT ![p] = Append(@, g)]
        = [q \in Priorities |-> [back EXCEPT ![p] = Append(@, g)][q]]
  BY <1>1 DEF Stores
<1> HIDE DEF new
<1>5. [q \in Priorities |-> gs[q] \o new[q]]
        = [q \in Priorities |-> [back EXCEPT ![p] = Append(@, g)][q]]
  BY <1>2
<1> QED
  BY <1>3, <1>4, <1>5, Zenon DEF new

\* The batch b pushed back after the batch f.
AddsMore(gs, f, b) ==
  ConvertGoalsToJava(PushedBack(PushedBack(gs, ToGoalsWithPriorities(f)),
                                ToGoalsWithPriorities(b)))
    = List!AddAll(ConvertGoalsToJava(gs), AsSeen(f \o b))

LEMMA AsSeenNone == AsSeen(<<>>) = <<>>
BY DEF AsSeen

\* One entry more, in the store and in the list.
LEMMA OneMore ==
  ASSUME NEW gs \in Stores(Goals), NEW b \in Seq(JavaEntries), NEW e \in JavaEntries,
         NEW l, NEW c \in Seq(JavaEntries),
         ConvertGoalsToJava(PushedBack(gs, ToGoalsWithPriorities(b))) = List!AddAll(l, AsSeen(c))
  PROVE  ConvertGoalsToJava(PushedBack(gs, ToGoalsWithPriorities(Append(b, e))))
           = List!AddAll(l, AsSeen(Append(c, e)))
<1> DEFINE more == ToGoalsWithPriorities(b)
<1> DEFINE p == e.priority
<1> DEFINE g == ToGoal(e.goal)
<1> DEFINE d == NewJavaGoalWithPriority(p, g)
<1>1. p \in Priorities /\ g \in Goals
  BY ToGoalType DEF JavaEntries
<1>2. more \in Stores(Goals)
  BY ToGoalsWithPrioritiesType
<1>3. ToGoalsWithPriorities(Append(b, e)) = [more EXCEPT ![p] = Append(@, g)]
  BY GroupedAppend
<1>4. /\ AsSeen(Append(c, e)) = Append(AsSeen(c), d)
      /\ AsSeen(c) \in Seq(GoalEntries) /\ d \in GoalEntries
  BY AsSeenAppend
<1> HIDE DEF more, p, g, d
<1>5. PICK back \in Stores(Goals) : back = PushedBack(gs, more)
  BY <1>2, PushedBackType
<1>6. PushedBack(gs, [more EXCEPT ![p] = Append(@, g)]) = [back EXCEPT ![p] = Append(@, g)]
  BY <1>1, <1>2, <1>5, PushedBackAppend
<1>7. ConvertGoalsToJava([back EXCEPT ![p] = Append(@, g)])
        = List!InsertBack(ConvertGoalsToJava(back), d)
  BY <1>1, ConvertAppended DEF d
<1>8. List!AddAll(l, Append(AsSeen(c), d)) = List!InsertBack(List!AddAll(l, AsSeen(c)), d)
  BY <1>4, AddAllMore
<1>9. ConvertGoalsToJava(back) = List!AddAll(l, AsSeen(c))
  BY <1>5, Zenon DEF more
<1> QED
  BY <1>3, <1>4, <1>6, <1>7, <1>8, <1>9, Zenon

LEMMA PushedBackAddsAll ==
  ASSUME NEW gs \in Stores(Goals)
  PROVE  \A b \in Seq(JavaEntries) :
           ConvertGoalsToJava(PushedBack(gs, ToGoalsWithPriorities(b)))
             = List!AddAll(ConvertGoalsToJava(gs), AsSeen(b))
<1> DEFINE P == {b \in Seq(JavaEntries) :
      ConvertGoalsToJava(PushedBack(gs, ToGoalsWithPriorities(b)))
        = List!AddAll(ConvertGoalsToJava(gs), AsSeen(b))}
<1>1. <<>> \in P
  <2>1. PushedBack(gs, ToGoalsWithPriorities(<<>>)) = gs
    BY GroupedNone, PushedBackNone
  <2>2. List!AddAll(ConvertGoalsToJava(gs), AsSeen(<<>>)) = ConvertGoalsToJava(gs)
    BY AsSeenNone, AddAllNone
  <2>3. ConvertGoalsToJava(PushedBack(gs, ToGoalsWithPriorities(<<>>)))
          = List!AddAll(ConvertGoalsToJava(gs), AsSeen(<<>>))
    BY <2>1, <2>2, Zenon
  <2> QED
    BY <2>3, EmptySeq
<1>2. ASSUME NEW b \in Seq(JavaEntries), NEW e \in JavaEntries, b \in P PROVE Append(b, e) \in P
  <2>1. ConvertGoalsToJava(PushedBack(gs, ToGoalsWithPriorities(Append(b, e))))
          = List!AddAll(ConvertGoalsToJava(gs), AsSeen(Append(b, e)))
    BY <1>2, OneMore
  <2>2. Append(b, e) \in Seq(JavaEntries)
    BY AppendProperties
  <2> QED
    BY <2>1, <2>2
<1>3. Seq(JavaEntries) \subseteq P
  <2> HIDE DEF P
  <2> QED
    BY <1>1, <1>2, SeqInduction
<1> QED
  BY <1>3

\* Two batches pushed back one after the other are one batch.
LEMMA PushedBackAddsBoth ==
  ASSUME NEW gs \in Stores(Goals), NEW f \in Seq(JavaEntries)
  PROVE  \A b \in Seq(JavaEntries) : AddsMore(gs, f, b)
<1> DEFINE P == {b \in Seq(JavaEntries) : AddsMore(gs, f, b)}
<1>0. PICK back \in Stores(Goals) : back = PushedBack(gs, ToGoalsWithPriorities(f))
  BY ToGoalsWithPrioritiesType, PushedBackType
<1>1. <<>> \in P
  <2>1. PushedBack(back, ToGoalsWithPriorities(<<>>)) = back
    BY GroupedNone, PushedBackNone
  <2>2. f \o <<>> = f
    BY ConcatEmptySeq
  <2>3. ConvertGoalsToJava(back) = List!AddAll(ConvertGoalsToJava(gs), AsSeen(f))
    BY <1>0, PushedBackAddsAll
  <2>4. AddsMore(gs, f, <<>>)
    BY <1>0, <2>1, <2>2, <2>3, Zenon DEF AddsMore
  <2> QED
    BY <2>4, EmptySeq
<1>2. ASSUME NEW b \in Seq(JavaEntries), NEW e \in JavaEntries, b \in P PROVE Append(b, e) \in P
  <2>1. PICK c \in Seq(JavaEntries) : c = f \o b
    BY ConcatProperties
  <2>2. f \o Append(b, e) = Append(c, e)
    <3>1. AppendsLast(f, b, e)
      BY AppendLast
    <3> QED
      BY <2>1, <3>1, Zenon DEF AppendsLast
  <2>3. ConvertGoalsToJava(PushedBack(back, ToGoalsWithPriorities(b)))
          = List!AddAll(ConvertGoalsToJava(gs), AsSeen(c))
    BY <1>0, <1>2, <2>1, Zenon DEF AddsMore
  <2>4. ConvertGoalsToJava(PushedBack(back, ToGoalsWithPriorities(Append(b, e))))
          = List!AddAll(ConvertGoalsToJava(gs), AsSeen(Append(c, e)))
    BY <2>3, OneMore
  <2>5. AddsMore(gs, f, Append(b, e))
    BY <1>0, <2>2, <2>4, Zenon DEF AddsMore
  <2>6. Append(b, e) \in Seq(JavaEntries)
    BY AppendProperties
  <2> QED
    BY <2>5, <2>6
<1>3. Seq(JavaEntries) \subseteq P
  <2> HIDE DEF P
  <2> QED
    BY <1>1, <1>2, SeqInduction
<1> QED
  BY <1>3

-----------------------------------------------------------------------------
(* Goals that leave the list. *)

\* The goals whose entries at priority p are in T.
GoalsOf(p, T) == {g \in Goals : NewJavaGoalWithPriority(p, g) \in T}

\* gs has the goals of T where hs has those of U.
SameIn(gs, T, hs, U) ==
  \A p \in Priorities : Those(gs[p], GoalsOf(p, T)) = Those(hs[p], GoalsOf(p, U))

\* Stores with the same goals of T convert to lists with the same entries of T.
LEMMA SameFiltered ==
  ASSUME NEW gs \in Stores(Goals), NEW T, NEW hs \in Stores(Goals), NEW U,
         SameIn(gs, T, hs, U)
  PROVE  Those(ConvertGoalsToJava(gs), T) = Those(ConvertGoalsToJava(hs), U)
<1>1. Filtered(gs, T) = Filtered(hs, U)
  BY Zenon DEF Filtered, SameIn, GoalsOf
<1>2. Those(ConvertGoalsToJava(gs), T) = ConvertGoalsToJava(Filtered(gs, T))
  BY ThoseConverted
<1>3. Those(ConvertGoalsToJava(hs), U) = ConvertGoalsToJava(Filtered(hs, U))
  BY ThoseConverted
<1> QED
  BY <1>1, <1>2, <1>3, Zenon

LEMMA GroupRemoved ==
  ASSUME NEW gs \in Stores(Goals), NEW group
  PROVE  ConvertGoalsToJava([p \in Priorities |-> Those(gs[p], {g \in Goals : g.group # group})])
           = List!Those(ConvertGoalsToJava(gs), {e \in GoalEntries : e.goal.groupId # group})
<1> DEFINE T == {e \in GoalEntries : e.goal.groupId # group}
<1> DEFINE U == {g \in Goals : g.group # group}
<1>1. ASSUME NEW p \in Priorities
      PROVE  {g \in Goals : NewJavaGoalWithPriority(p, g) \in T} = U
  <2>1. ASSUME NEW g \in Goals
        PROVE  NewJavaGoalWithPriority(p, g) \in GoalEntries
               /\ NewJavaGoalWithPriority(p, g).goal.groupId = g.group
    <3>1. NewJavaGoalWithPriority(p, g) \in GoalEntries
      BY DEF GoalEntries
    <3> QED
      BY <3>1 DEF NewJavaGoalWithPriority, NewJavaGoal
  <2> QED
    BY <2>1
<1> HIDE DEF T, U
<1>2. [p \in Priorities |-> Those(gs[p], U)] = Filtered(gs, T)
  <2>1. \A p \in Priorities :
          Those(gs[p], U) = Those(gs[p], {g \in Goals : NewJavaGoalWithPriority(p, g) \in T})
    BY <1>1, Zenon
  <2> QED
    BY <2>1, Zenon DEF Filtered
<1>3. Those(ConvertGoalsToJava(gs), T) = ConvertGoalsToJava(Filtered(gs, T))
  BY ThoseConverted
<1>4. List!Those(ConvertGoalsToJava(gs), T) = Those(ConvertGoalsToJava(gs), T)
  BY ListThose
<1> QED
  BY <1>2, <1>3, <1>4, Zenon DEF T, U

PersistentGoals == {g \in Goals : Parse[g.text].persistent}

LEMMA PersistentEntries ==
  ASSUME NEW p \in Priorities
  PROVE  {g \in Goals : NewJavaGoalWithPriority(p, g) \in Persistent} = PersistentGoals
<1>1. ASSUME NEW g \in Goals
      PROVE  NewJavaGoalWithPriority(p, g) \in Persistent <=> Parse[g.text].persistent
  <2>1. NewJavaGoalWithPriority(p, g).goal.fact = g.text
    BY DEF NewJavaGoalWithPriority, NewJavaGoal
  <2>2. NewJavaGoalWithPriority(p, g) \in GoalEntries
    BY DEF GoalEntries
  <2> QED
    BY <2>1, <2>2, Zenon DEF Persistent, HasPersistentGoal
<1> QED
  BY <1>1 DEF PersistentGoals

ExpiresTo(m, l, n) ==
  m = Those(SubSeq(l, 1, n), Persistent) \o SubSeq(l, n + 1, Len(l))

LEMMA ListExpire ==
  ASSUME NEW l, NEW n, NEW m, ExpiresTo(m, l, n)
  PROVE  m = List!Expire(l, n)
<1>1. List!Those(SubSeq(l, 1, n), Persistent) = Those(SubSeq(l, 1, n), Persistent)
  BY ListThose
<1> QED
  BY <1>1, Zenon DEF ExpiresTo, List!Expire, Persistent

\* The list around the row of one priority, when nothing changes.
LEMMA PartedAt ==
  ASSUME NEW gs \in Stores(Goals), NEW q \in Priorities
  PROVE  Parted(ConvertGoalsToJava(gs), Those(ConvertGoalsToJava(gs), List!Above(q)),
                Row(q, gs[q]), Those(ConvertGoalsToJava(gs), List!Below(q)))
<1>1. gs[q] \in Seq(Goals) /\ [gs EXCEPT ![q] = gs[q]] = gs
  BY DEF Stores
<1>2. SplitsAt(gs, q, gs[q])
  BY <1>1, SplitAt
<1> QED
  BY <1>1, <1>2, Zenon DEF SplitsAt, Parted

\* All goals were examined.
LEMMA KeptIsExpire ==
  ASSUME NEW gs \in Stores(Goals)
  PROVE  ConvertGoalsToJava([p \in Priorities |-> Kept(gs[p])])
           = List!Expire(ConvertGoalsToJava(gs), Len(ConvertGoalsToJava(gs)))
<1>1. PICK l \in Seq(GoalEntries) : l = ConvertGoalsToJava(gs)
  BY ConvertSorted
<1>2. Len(l) \in Nat /\ SubSeq(l, 1, Len(l)) = l /\ SubSeq(l, Len(l) + 1, Len(l)) = <<>>
  <2>1. Len(l) \in Nat
    BY LenProperties
  <2>2. SubSeq(l, 1, Len(l)) = l
    BY SubSeqFull
  <2>3. SubSeq(l, Len(l) + 1, Len(l)) = <<>>
    BY <2>1, SubSeqEmpty
  <2> QED
    BY <2>1, <2>2, <2>3
<1>3. [p \in Priorities |-> Kept(gs[p])] = Filtered(gs, Persistent)
  <2>1. \A p \in Priorities :
          Kept(gs[p]) = Those(gs[p], {g \in Goals : NewJavaGoalWithPriority(p, g) \in Persistent})
    BY PersistentEntries, Zenon DEF Kept, PersistentGoals
  <2> QED
    BY <2>1, Zenon DEF Filtered
<1>4. PICK m \in Seq(GoalEntries) : m = Those(l, Persistent)
  BY ThoseType
<1>5. m \o <<>> = m
  BY ConcatEmptySeq
<1>6. ConvertGoalsToJava(Filtered(gs, Persistent)) = m
  BY <1>1, <1>4, ThoseConverted
<1>7. ExpiresTo(m, l, Len(l))
  BY <1>2, <1>4, <1>5, Zenon DEF ExpiresTo
<1>8. m = List!Expire(l, Len(l))
  BY <1>7, ListExpire
<1> QED
  BY <1>1, <1>3, <1>6, <1>8, Zenon

\* The entries of the goals in a store.
EntriesOf(gs) ==
  {e \in GoalEntries : \E p \in Priorities : \E i \in DOMAIN gs[p] :
     e = NewJavaGoalWithPriority(p, gs[p][i])}

LEMMA ConvertHasGoals ==
  ASSUME NEW gs \in Stores(Goals)
  PROVE  ConvertGoalsToJava(gs) \in Seq(EntriesOf(gs))
<1> DEFINE n == Cardinality(Priorities)
<1>1. n \in Nat /\ DOMAIN DescendingPriorities = 1 .. n
        /\ \A k \in 1 .. n : DescendingPriorities[k] \in Priorities
  BY EachPriorityOnce
<1>2. DOMAIN Rows(gs) = 1 .. n /\ Rows(gs) = [k \in 1 .. n |-> Rows(gs)[k]]
        /\ \A k \in 1 .. n :
             Rows(gs)[k] = Row(DescendingPriorities[k], gs[DescendingPriorities[k]])
  BY <1>1, Zenon DEF Rows
<1>3. ASSUME NEW k \in 1 .. n PROVE Rows(gs)[k] \in Seq(EntriesOf(gs))
  <2> DEFINE p == DescendingPriorities[k]
  <2>1. p \in Priorities /\ gs[p] \in Seq(Goals)
    BY <1>1 DEF Stores
  <2> HIDE DEF p
  <2>2. Row(p, gs[p]) \in Seq(EntriesAt(p))
    BY <2>1, RowType
  <2>3. \A i \in DOMAIN Row(p, gs[p]) : Row(p, gs[p])[i] \in EntriesOf(gs)
    <3> SUFFICES ASSUME NEW i \in DOMAIN gs[p]
                 PROVE  NewJavaGoalWithPriority(p, gs[p][i]) \in EntriesOf(gs)
      BY DEF Row
    <3>1. gs[p][i] \in Goals
      BY <2>1
    <3> QED
      BY <2>1, <3>1 DEF EntriesOf, GoalEntries
  <2>4. Row(p, gs[p]) \in Seq(EntriesOf(gs))
    BY <2>2, <2>3, ElementsMakeSeq
  <2> QED
    BY <1>2, <2>4 DEF p
<1> HIDE DEF n
<1>4. Rows(gs) \in Seq(Seq(EntriesOf(gs)))
  BY <1>1, <1>2, <1>3, FunctionIsSeq
<1> QED
  BY <1>4, FlattenType, ConvertIsFlat

\* The entries ahead of position k + 1 of priority q, and the one there.
EntriesAhead(gs, q, k) ==
  {e \in GoalEntries : \E p \in Priorities : \E i \in DOMAIN gs[p] :
     (p > q \/ (p = q /\ i <= k)) /\ e = NewJavaGoalWithPriority(p, gs[p][i])}

\* Position n + 1 of the list is position k + 1 of priority q in the store.
IsPosition(gs, q, k, n) ==
  /\ n \in 0 .. Len(ConvertGoalsToJava(gs))
  /\ \A i \in 1 .. n : ConvertGoalsToJava(gs)[i] \in EntriesAhead(gs, q, k)
  /\ k < Len(gs[q]) =>
       /\ n + 1 \in DOMAIN ConvertGoalsToJava(gs)
       /\ ConvertGoalsToJava(gs)[n + 1] = NewJavaGoalWithPriority(q, gs[q][k + 1])
  /\ (k = Len(gs[q]) /\ \A p \in Priorities : p < q => gs[p] = <<>>) =>
       n = Len(ConvertGoalsToJava(gs))

\* The goals ahead of one position were examined.
LEMMA ExpiredIsExpire ==
  ASSUME NEW gs \in Stores(Goals), NEW q \in Priorities, NEW k \in 0 .. Len(gs[q])
  PROVE  \E n \in Nat :
           /\ IsPosition(gs, q, k, n)
           /\ ConvertGoalsToJava(Expired(gs, q, k)) = List!Expire(ConvertGoalsToJava(gs), n)
<1> DEFINE after == Expired(gs, q, k)
<1> DEFINE above == List!Above(q)
<1> DEFINE below == List!Below(q)
<1>0. /\ gs[q] \in Seq(Goals) /\ q \in Int /\ k \in Nat /\ k <= Len(gs[q])
      /\ \A p \in Priorities : p \in Int
  BY PrioritiesAssumption, LenProperties DEF Stores
<1>1. after \in Stores(Goals)
  BY <1>0, ExpiredType
<1>2. after[q] = KeptAhead(gs[q], k)
  BY <1>0 DEF Expired
<1>3. PICK l \in Seq(GoalEntries) : l = ConvertGoalsToJava(gs)
  BY ConvertSorted
<1>4. PICK a \in Seq(GoalEntries) : a = Those(l, above)
  BY ThoseType
<1>5. PICK b \in Seq(GoalEntries) : b = Those(l, below)
  BY ThoseType
<1>6. PICK r \in Seq(GoalEntries) : r = Row(q, gs[q]) /\ Len(r) = Len(gs[q])
  <2>1. EntriesAt(q) \subseteq GoalEntries
    BY DEF EntriesAt
  <2> QED
    BY <1>0, <2>1, RowType, SeqMonotonic
<1>7. Parted(l, a, r, b)
  BY <1>3, <1>4, <1>5, <1>6, PartedAt, Zenon
<1>8. Those(ConvertGoalsToJava(after), above) = Those(a, Persistent)
  <2>1. ASSUME NEW p \in Priorities
        PROVE  Those(after[p], GoalsOf(p, above)) = Those(gs[p], GoalsOf(p, above \cap Persistent))
    <3>0. gs[p] \in Seq(Goals) /\ after[p] \in Seq(Goals)
      BY <1>1 DEF Stores
    <3>1. CASE p > q
      <4>1. after[p] = Those(gs[p], PersistentGoals)
        BY <1>0, <3>1 DEF Expired, Kept, PersistentGoals
      <4>2. PersistentGoals \cap GoalsOf(p, above) = GoalsOf(p, above \cap Persistent)
        <5>1. {g \in Goals : NewJavaGoalWithPriority(p, g) \in Persistent} = PersistentGoals
          BY PersistentEntries
        <5> HIDE DEF above
        <5> QED
          BY <5>1 DEF GoalsOf
      <4> HIDE DEF above, after
      <4>3. Those(Those(gs[p], PersistentGoals), GoalsOf(p, above))
              = Those(gs[p], PersistentGoals \cap GoalsOf(p, above))
        BY <3>0, ThoseThose
      <4> QED
        BY <4>1, <4>2, <4>3, Zenon
    <3>2. CASE ~ (p > q)
      <4>1. \A g \in Goals : NewJavaGoalWithPriority(p, g) \notin above
        <5>1. \A g : NewJavaGoalWithPriority(p, g).priority = p
          BY DEF NewJavaGoalWithPriority
        <5> QED
          BY <3>2, <5>1, ListSets
      <4> HIDE DEF above, after
      <4>2. Goals \cap GoalsOf(p, above) = {} /\ Goals \cap GoalsOf(p, above \cap Persistent) = {}
        BY <4>1 DEF GoalsOf
      <4> QED
        BY <3>0, <4>2, ThoseNone
    <3> QED
      BY <3>1, <3>2
  <2> HIDE DEF above, after
  <2>2. Those(ConvertGoalsToJava(after), above) = Those(l, above \cap Persistent)
    <3>1. SameIn(after, above, gs, above \cap Persistent)
      BY <2>1 DEF SameIn
    <3> QED
      BY <1>1, <1>3, <3>1, SameFiltered
  <2>3. Those(Those(l, above), Persistent) = Those(l, above \cap Persistent)
    BY ThoseThose
  <2> QED
    BY <1>4, <2>2, <2>3, Zenon
<1>9. Those(ConvertGoalsToJava(after), below) = b
  <2>1. ASSUME NEW p \in Priorities
        PROVE  Those(after[p], GoalsOf(p, below)) = Those(gs[p], GoalsOf(p, below))
    <3>0. gs[p] \in Seq(Goals) /\ after[p] \in Seq(Goals)
      BY <1>1 DEF Stores
    <3>1. CASE p < q
      BY <1>0, <3>1 DEF Expired
    <3>2. CASE ~ (p < q)
      <4>1. \A g \in Goals : NewJavaGoalWithPriority(p, g) \notin below
        <5>1. \A g : NewJavaGoalWithPriority(p, g).priority = p
          BY DEF NewJavaGoalWithPriority
        <5> QED
          BY <3>2, <5>1, ListSets
      <4> HIDE DEF below, after
      <4>2. Goals \cap GoalsOf(p, below) = {}
        BY <4>1 DEF GoalsOf
      <4> QED
        BY <3>0, <4>2, ThoseNone
    <3> QED
      BY <3>1, <3>2
  <2> HIDE DEF below, after
  <2>2. SameIn(after, below, gs, below)
    BY <2>1 DEF SameIn
  <2>3. Those(ConvertGoalsToJava(after), below) = Those(ConvertGoalsToJava(gs), below)
    BY <1>1, <2>2, SameFiltered
  <2> QED
    BY <1>3, <1>5, <2>3, Zenon
<1>10. Parted(ConvertGoalsToJava(after), Those(a, Persistent), Row(q, KeptAhead(gs[q], k)), b)
  <2> HIDE DEF after, above, below
  <2>1. Parted(ConvertGoalsToJava(after), Those(ConvertGoalsToJava(after), above),
               Row(q, after[q]), Those(ConvertGoalsToJava(after), below))
    BY <1>1, PartedAt DEF above, below
  <2> QED
    BY <1>2, <1>8, <1>9, <2>1, Zenon
<1>11. RowExpires(q, gs[q], k)
  BY <1>0, RowKeptAhead
<1>12. ExpiresInside(l, a, r, b, k, Persistent) /\ CutsInside(l, a, r, b, k)
  BY <1>6, <1>7, ExpireInside, CutInside
<1> HIDE DEF after
<1>13. ExpiresTo(ConvertGoalsToJava(after), l, Len(a) + k)
  BY <1>6, <1>10, <1>11, <1>12, Zenon DEF Parted, RowExpires, ExpiresInside, ExpiresTo
<1>14. ConvertGoalsToJava(after) = List!Expire(l, Len(a) + k) /\ Len(a) + k \in 0 .. Len(l)
  BY <1>12, <1>13, ListExpire DEF CutsInside
<1>15. /\ Len(a) \in Nat /\ Len(b) \in Nat /\ DOMAIN r = 1 .. Len(r) /\ DOMAIN l = 1 .. Len(l)
       /\ DOMAIN gs[q] = 1 .. Len(gs[q]) /\ Len(l) = Len(a) + Len(r) + Len(b)
       /\ \A i \in 1 .. Len(a) : l[i] = a[i]
  BY <1>0, <1>7, LenProperties, PartsInside
<1>16. \A i \in 1 .. Len(r) : /\ Len(a) + i \in DOMAIN l
                              /\ l[Len(a) + i] = NewJavaGoalWithPriority(q, gs[q][i])
  <2> SUFFICES ASSUME NEW i \in 1 .. Len(r)
               PROVE  /\ Len(a) + i \in DOMAIN l
                      /\ l[Len(a) + i] = NewJavaGoalWithPriority(q, gs[q][i])
    OBVIOUS
  <2>1. Len(a) + i \in DOMAIN l /\ l[Len(a) + i] = r[i]
    BY <1>7, ElementInside
  <2>2. r[i] = NewJavaGoalWithPriority(q, gs[q][i])
    BY <1>6, <1>15, Zenon DEF Row
  <2> QED
    BY <2>1, <2>2
<1>17. \A i \in 1 .. Len(a) + k : l[i] \in EntriesAhead(gs, q, k)
  <2>1. \A i \in 1 .. Len(a) : l[i] \in EntriesAhead(gs, q, k)
    <3>1. l \in Seq(EntriesOf(gs))
      BY <1>3, ConvertHasGoals
    <3>2. a \in Seq(EntriesOf(gs) \cap above)
      BY <1>4, <3>1, ThoseRange
    <3>3. EntriesOf(gs) \cap above \subseteq EntriesAhead(gs, q, k)
      <4>1. \A p, g : NewJavaGoalWithPriority(p, g).priority = p
        BY DEF NewJavaGoalWithPriority
      <4> QED
        BY <4>1, ListSets DEF EntriesOf, EntriesAhead
    <3> HIDE DEF above
    <3>4. \A i \in 1 .. Len(a) : a[i] \in EntriesOf(gs) \cap above
      BY <3>2, ElementOfSeq
    <3> QED
      BY <1>15, <3>3, <3>4
  <2>2. \A i \in 1 .. k : l[Len(a) + i] \in EntriesAhead(gs, q, k)
    <3> SUFFICES ASSUME NEW i \in 1 .. k PROVE l[Len(a) + i] \in EntriesAhead(gs, q, k)
      OBVIOUS
    <3>1. i \in 1 .. Len(r) /\ i \in DOMAIN gs[q] /\ i <= k
      BY <1>0, <1>6, <1>15
    <3>2. gs[q][i] \in Goals
      BY <1>0, <3>1
    <3>3. NewJavaGoalWithPriority(q, gs[q][i]) \in EntriesAhead(gs, q, k)
      BY <3>1, <3>2 DEF EntriesAhead, GoalEntries
    <3> QED
      BY <1>16, <3>1, <3>3
  <2>3. \A i \in 1 .. Len(a) + k : i \in 1 .. Len(a) \/ \E j \in 1 .. k : i = Len(a) + j
    <3>1. PICK m \in Nat : m = Len(a)
      BY <1>15
    <3>2. k \in Nat
      BY <1>0
    <3>3. \A i \in 1 .. m + k : i \notin 1 .. m => i - m \in 1 .. k /\ i = m + (i - m)
      BY <3>2
    <3> QED
      BY <3>1, <3>3
  <2> QED
    BY <2>1, <2>2, <2>3
<1>18. k < Len(gs[q]) => /\ Len(a) + k + 1 \in DOMAIN l
                         /\ l[Len(a) + k + 1] = NewJavaGoalWithPriority(q, gs[q][k + 1])
  <2> SUFFICES ASSUME k < Len(gs[q])
               PROVE  /\ Len(a) + k + 1 \in DOMAIN l
                      /\ l[Len(a) + k + 1] = NewJavaGoalWithPriority(q, gs[q][k + 1])
    OBVIOUS
  <2>1. k + 1 \in 1 .. Len(r) /\ Len(a) + (k + 1) = Len(a) + k + 1
    BY <1>0, <1>6, <1>15
  <2> QED
    BY <1>16, <2>1
<1>19. (k = Len(gs[q]) /\ \A p \in Priorities : p < q => gs[p] = <<>>) => Len(a) + k = Len(l)
  <2> SUFFICES ASSUME k = Len(gs[q]), \A p \in Priorities : p < q => gs[p] = <<>>
               PROVE  Len(a) + k = Len(l)
    OBVIOUS
  <2>1. EntriesOf(gs) \cap below = {}
    <3>1. \A p, g : NewJavaGoalWithPriority(p, g).priority = p
      BY DEF NewJavaGoalWithPriority
    <3>2. \A p \in Priorities : p < q => DOMAIN gs[p] = {}
      OBVIOUS
    <3> QED
      BY <3>1, <3>2, ListSets DEF EntriesOf
  <2>2. l \in Seq(EntriesOf(gs))
    BY <1>3, ConvertHasGoals
  <2> HIDE DEF below
  <2>3. b = <<>>
    BY <1>5, <2>1, <2>2, ThoseNone
  <2> QED
    BY <1>6, <1>15, <2>3
<1>20. PICK n \in Nat : n = Len(a) + k
  BY <1>0, <1>15
<1>21. IsPosition(gs, q, k, n)
  BY <1>3, <1>14, <1>17, <1>18, <1>19, <1>20 DEF IsPosition
<1> QED
  BY <1>3, <1>14, <1>20, <1>21 DEF after

LEMMA RowOne ==
  ASSUME NEW p \in Priorities, NEW g \in Goals
  PROVE  Row(p, <<g>>) = <<NewJavaGoalWithPriority(p, g)>>
<1>1. Append(<<>>, g) = <<g>>
      /\ Append(<<>>, NewJavaGoalWithPriority(p, g)) = <<NewJavaGoalWithPriority(p, g)>>
  OBVIOUS
<1>2. Row(p, Append(<<>>, g)) = Append(Row(p, <<>>), NewJavaGoalWithPriority(p, g))
  BY EmptySeq, RowAppend
<1> QED
  BY <1>1, <1>2, RowEmpty

\* A goal erased from its vector leaves its place in the list.
LEMMA WithoutIsRemoveAt ==
  ASSUME NEW gs \in Stores(Goals), NEW q \in Priorities, NEW i \in DOMAIN gs[q]
  PROVE  \E j \in DOMAIN ConvertGoalsToJava(gs) :
           /\ ConvertGoalsToJava(Without(gs, q, i)) = List!RemoveAt(ConvertGoalsToJava(gs), j)
           /\ ConvertGoalsToJava(gs)[j] = NewJavaGoalWithPriority(q, gs[q][i])
<1>0. gs[q] \in Seq(Goals) /\ i \in 1 .. Len(gs[q])
  BY LenProperties DEF Stores
<1>1. PICK l \in Seq(GoalEntries) : l = ConvertGoalsToJava(gs)
  BY ConvertSorted
<1>2. PICK a \in Seq(GoalEntries) : a = Those(l, List!Above(q))
  BY ThoseType
<1>3. PICK b \in Seq(GoalEntries) : b = Those(l, List!Below(q))
  BY ThoseType
<1>4. PICK r \in Seq(GoalEntries) : r = Row(q, gs[q]) /\ Len(r) = Len(gs[q])
  <2>1. EntriesAt(q) \subseteq GoalEntries
    BY DEF EntriesAt
  <2> QED
    BY <1>0, <2>1, RowType, SeqMonotonic
<1>5. Parted(l, a, r, b)
  BY <1>1, <1>2, <1>3, <1>4, PartedAt, Zenon
<1>6. RemovesInside(l, a, r, b, i) /\ Len(a) + i \in DOMAIN l /\ l[Len(a) + i] = r[i]
  BY <1>0, <1>4, <1>5, RemoveInside, ElementInside
<1>7. RemoveAt(gs[q], i) \in Seq(Goals)
  BY <1>0, RemoveAtType
<1>8. SplitsAt(gs, q, RemoveAt(gs[q], i)) /\ RowLoses(q, gs[q], i)
  BY <1>0, <1>7, SplitAt, RowRemoveAt
<1>9. ConvertGoalsToJava(Without(gs, q, i)) = RemoveAt(l, Len(a) + i)
  BY <1>1, <1>2, <1>3, <1>4, <1>6, <1>8, Zenon DEF Without, SplitsAt, RowLoses, RemovesInside
<1>10. r[i] = NewJavaGoalWithPriority(q, gs[q][i])
  BY <1>4, Zenon DEF Row
<1>11. List!RemoveAt(l, Len(a) + i) = RemoveAt(l, Len(a) + i)
  BY ListRemoveAt
<1> QED
  BY <1>1, <1>6, <1>9, <1>10, <1>11, Zenon

-----------------------------------------------------------------------------
(* Each operation on the store is an operation on the list. *)

LEMMA SeenIs ==
  ASSUME NEW e \in JavaEntries
  PROVE  /\ Seen(e) = NewJavaGoalWithPriority(e.priority, ToGoal(e.goal))
         /\ Seen(e) \in GoalEntries /\ Seen(e).priority = e.priority
<1>1. e.priority \in Priorities /\ e.goal \in JavaGoals
  BY DEF JavaEntries
<1>2. ToGoal(e.goal) \in Goals
  BY <1>1, ToGoalType
<1> QED
  BY <1>1, <1>2 DEF Seen, GoalEntries, NewJavaGoalWithPriority

LEMMA PushesFront ==
  ASSUME NEW gs \in Stores(Goals), NEW e \in JavaEntries
  PROVE  List!PushFront(Seen(e), ConvertGoalsToJava(gs),
                        ConvertGoalsToJava(PushedFront(gs, e.priority, <<ToGoal(e.goal)>>)))
<1> DEFINE g == ToGoal(e.goal)
<1>1. e.priority \in Priorities /\ g \in Goals
  BY ToGoalType DEF JavaEntries
<1> HIDE DEF g
<1>2. <<g>> \in Seq(Goals)
  BY <1>1
<1>3. Row(e.priority, <<g>>) = <<Seen(e)>>
  BY <1>1, RowOne, SeenIs DEF g
<1>4. ConvertGoalsToJava(PushedFront(gs, e.priority, <<g>>))
        = List!InsertFront(ConvertGoalsToJava(gs), Row(e.priority, <<g>>), e.priority)
  BY <1>1, <1>2, ConvertPushedFront
<1>5. Seen(e).priority = e.priority
  BY SeenIs
<1> QED
  BY <1>3, <1>4, <1>5, Zenon DEF List!PushFront, g

LEMMA PushesBack ==
  ASSUME NEW gs \in Stores(Goals), NEW e \in JavaEntries
  PROVE  List!PushBack(Seen(e), ConvertGoalsToJava(gs),
                       ConvertGoalsToJava([gs EXCEPT ![e.priority] = Append(@, ToGoal(e.goal))]))
<1>1. e.priority \in Priorities /\ ToGoal(e.goal) \in Goals
  BY ToGoalType DEF JavaEntries
<1>2. ConvertGoalsToJava([gs EXCEPT ![e.priority] = Append(@, ToGoal(e.goal))])
        = List!InsertBack(ConvertGoalsToJava(gs), Seen(e))
  BY <1>1, ConvertAppended, SeenIs
<1> QED
  BY <1>2, Zenon DEF List!PushBack

\* The store after the goal at place i of priority q was moved to priority p.
Moved(gs, q, i, p, front) ==
  IF front THEN PushedFront(Without(gs, q, i), p, <<gs[q][i]>>)
           ELSE [Without(gs, q, i) EXCEPT ![p] = Append(@, gs[q][i])]

LEMMA ChangesPriority ==
  ASSUME NEW gs \in Stores(Goals), NEW q \in Priorities, NEW i \in DOMAIN gs[q],
         NEW p \in Priorities, NEW front \in BOOLEAN
  PROVE  List!ChangePriority(gs[q][i].text, p, front, ConvertGoalsToJava(gs),
                             ConvertGoalsToJava(Moved(gs, q, i, p, front)))
<1>1. PICK g \in Goals : g = gs[q][i]
  BY DEF Stores
<1>2. PICK rest \in Stores(Goals) : rest = Without(gs, q, i)
  BY WithoutType
<1> DEFINE l == ConvertGoalsToJava(gs)
<1> DEFINE m == ConvertGoalsToJava(Moved(gs, q, i, p, front))
<1>3. PICK j \in DOMAIN l :
        ConvertGoalsToJava(rest) = List!RemoveAt(l, j) /\ l[j] = NewJavaGoalWithPriority(q, g)
  BY <1>1, <1>2, WithoutIsRemoveAt
<1> DEFINE e == NewJavaGoalWithPriority(p, g)
<1>4. [l[j] EXCEPT !.priority = p] = e /\ l[j].goal.fact = g.text
  <2> HIDE DEF l
  <2> QED
    BY <1>3 DEF NewJavaGoalWithPriority, NewJavaGoal
<1> HIDE DEF l
<1>5. m = IF front THEN List!InsertFront(List!RemoveAt(l, j), <<[l[j] EXCEPT !.priority = p]>>, p)
                   ELSE List!InsertBack(List!RemoveAt(l, j), [l[j] EXCEPT !.priority = p])
  <2>1. CASE front
    <3>1. Moved(gs, q, i, p, front) = PushedFront(rest, p, <<g>>)
      BY <1>1, <1>2, <2>1, Zenon DEF Moved
    <3>2. <<g>> \in Seq(Goals)
      OBVIOUS
    <3>3. ConvertGoalsToJava(PushedFront(rest, p, <<g>>))
            = List!InsertFront(ConvertGoalsToJava(rest), Row(p, <<g>>), p)
      BY <3>2, ConvertPushedFront
    <3>4. Row(p, <<g>>) = <<e>>
      BY RowOne
    <3> HIDE DEF e
    <3> QED
      BY <1>3, <1>4, <2>1, <3>1, <3>3, <3>4, Zenon
  <2>2. CASE ~ front
    <3>1. Moved(gs, q, i, p, front) = [rest EXCEPT ![p] = Append(@, g)]
      BY <1>1, <1>2, <2>2, Zenon DEF Moved
    <3>2. ConvertGoalsToJava([rest EXCEPT ![p] = Append(@, g)])
            = List!InsertBack(ConvertGoalsToJava(rest), e)
      BY ConvertAppended
    <3> HIDE DEF e
    <3> QED
      BY <1>3, <1>4, <2>2, <3>1, <3>2, Zenon
  <2> QED
    BY <2>1, <2>2
<1> HIDE DEF m, e
<1> QED
  BY <1>1, <1>3, <1>4, <1>5, Zenon DEF List!ChangePriority, l, m

\* What the entries ahead of a place are, when it is that of the first goal
\* that is not satisfied.
LEMMA AheadSatisfied ==
  ASSUME NEW gs \in Stores(Goals), NEW q \in Priorities, NEW k \in 0 .. Len(gs[q]), NEW facts,
         IsFirstNotSatisfied(gs, q, k, facts)
  PROVE  /\ EntriesAhead(gs, q, k) \subseteq Satisfied(facts)
         /\ k < Len(gs[q]) => NewJavaGoalWithPriority(q, gs[q][k + 1]) \notin Satisfied(facts)
<1>0. /\ \A p \in Priorities : \A i \in DOMAIN gs[p] :
           gs[p][i] \in Goals /\ ToGoal(NewJavaGoalWithPriority(p, gs[p][i]).goal) = gs[p][i]
      /\ Len(gs[q]) \in Nat /\ DOMAIN gs[q] = 1 .. Len(gs[q])
  <2>1. \A p \in Priorities : gs[p] \in Seq(Goals)
    BY DEF Stores
  <2>2. \A p, g : NewJavaGoalWithPriority(p, g).goal = NewJavaGoal(g)
    BY DEF NewJavaGoalWithPriority
  <2>3. \A p \in Priorities : \A i \in DOMAIN gs[p] : gs[p][i] \in Goals
    BY <2>1
  <2> QED
    BY <2>1, <2>2, <2>3, ThereAndBack, LenProperties
<1>1. EntriesAhead(gs, q, k) \subseteq Satisfied(facts)
  <2> SUFFICES ASSUME NEW e \in EntriesAhead(gs, q, k) PROVE ~ NotSatisfied(ToGoal(e.goal), facts)
    BY DEF Satisfied, EntriesAhead
  <2>1. PICK p \in Priorities : \E i \in DOMAIN gs[p] :
          (p > q \/ (p = q /\ i <= k)) /\ e = NewJavaGoalWithPriority(p, gs[p][i])
    BY DEF EntriesAhead
  <2>2. PICK i \in DOMAIN gs[p] :
          (p > q \/ (p = q /\ i <= k)) /\ e = NewJavaGoalWithPriority(p, gs[p][i])
    BY <2>1
  <2>3. ~ NotSatisfied(gs[p][i], facts)
    BY <2>2 DEF IsFirstNotSatisfied
  <2> QED
    BY <1>0, <2>2, <2>3
<1>2. ASSUME k < Len(gs[q])
      PROVE  NewJavaGoalWithPriority(q, gs[q][k + 1]) \notin Satisfied(facts)
  <2>1. k # Len(gs[q]) /\ k + 1 \in DOMAIN gs[q]
    BY <1>0, <1>2
  <2>2. NotSatisfied(gs[q][k + 1], facts)
    BY <2>1 DEF IsFirstNotSatisfied
  <2>3. ToGoal(NewJavaGoalWithPriority(q, gs[q][k + 1]).goal) = gs[q][k + 1]
    BY <1>0, <2>1
  <2> QED
    BY <2>2, <2>3 DEF Satisfied
<1> QED
  BY <1>1, <1>2

LEMMA RemovesSatisfied ==
  ASSUME NEW gs \in Stores(Goals), NEW facts, NEW rest \in FirstSatisfiedRemoved(gs, facts)
  PROVE  List!RemoveFirstSatisfied(Satisfied(facts), ConvertGoalsToJava(gs),
                                   ConvertGoalsToJava(rest))
<1>1. PICK c \in Priorities \X (0 .. MaxGoals) :
        /\ c[2] <= Len(gs[c[1]]) /\ IsFirstNotSatisfied(gs, c[1], c[2], facts)
        /\ rest = Expired(gs, c[1], c[2])
  BY DEF FirstSatisfiedRemoved
<1>2. PICK q \in Priorities : q = c[1]
  BY <1>1
<1>3. gs[q] \in Seq(Goals)
  BY DEF Stores
<1>4. PICK k \in 0 .. Len(gs[q]) : k = c[2]
  BY <1>1, <1>2, <1>3, LenProperties
<1>5. PICK n \in Nat :
        /\ IsPosition(gs, q, k, n)
        /\ ConvertGoalsToJava(Expired(gs, q, k)) = List!Expire(ConvertGoalsToJava(gs), n)
  BY ExpiredIsExpire
<1>6. IsFirstNotSatisfied(gs, q, k, facts) /\ rest = Expired(gs, q, k)
  BY <1>1, <1>2, <1>4
<1>7. /\ EntriesAhead(gs, q, k) \subseteq Satisfied(facts)
      /\ k < Len(gs[q]) => NewJavaGoalWithPriority(q, gs[q][k + 1]) \notin Satisfied(facts)
  BY <1>6, AheadSatisfied
<1>8. k = Len(gs[q]) => \A p \in Priorities : p < q => gs[p] = <<>>
  BY <1>6 DEF IsFirstNotSatisfied
<1>9. k = Len(gs[q]) \/ k < Len(gs[q])
  BY <1>3, LenProperties
<1> DEFINE l == ConvertGoalsToJava(gs)
<1>10. n \in 0 .. Len(l) /\ \A i \in 1 .. n : l[i] \in Satisfied(facts)
  BY <1>5, <1>7 DEF IsPosition
<1>11. n < Len(l) => l[n + 1] \notin Satisfied(facts)
  BY <1>5, <1>7, <1>8, <1>9 DEF IsPosition
<1> HIDE DEF l
<1> QED
  BY <1>5, <1>6, <1>10, <1>11, Zenon DEF List!RemoveFirstSatisfied, l

\* What an attached inference pushes back is a batch of the client.
LEMMA FiringBatch ==
  ASSUME NEW i \in Firing
  PROVE  \E f \in FiredBatches : f \in Seq(JavaEntries) /\ i.goalsToAdd = ToGoalsWithPriorities(f)
<1>1. CASE i = Nothing
  <2>1. i.goalsToAdd = ToGoalsWithPriorities(<<>>)
    BY <1>1, GroupedNone DEF Nothing
  <2>2. <<>> \in FiredBatches /\ <<>> \in Seq(JavaEntries)
    BY EmptySeq DEF FiredBatches
  <2> QED
    BY <2>1, <2>2
<1>2. CASE i # Nothing
  <2>1. attached # {}
    BY <1>2 DEF Firing
  <2>2. PICK j \in Inferences : i = ToInference(j)
    BY <1>2 DEF Firing
  <2>3. i.goalsToAdd = ToGoalsWithPriorities(j.goals)
    BY <2>2 DEF ToInference
  <2>4. j.goals \in FiredBatches /\ j.goals \in Seq(JavaEntries)
    BY <2>1, InferencesAssumption DEF FiredBatches
  <2> QED
    BY <2>3, <2>4
<1> QED
  BY <1>1, <1>2

LEMMA AddsBatch ==
  ASSUME NEW gs \in Stores(Goals), NEW b \in Seq(JavaEntries)
  PROVE  List!AddGoals(AsSeen(b), ConvertGoalsToJava(gs),
                       ConvertGoalsToJava(PushedBack(gs, ToGoalsWithPriorities(b))))
BY PushedBackAddsAll, Zenon DEF List!AddGoals

\* What an action adds at the priority of its goal is a front of the list.
LEMMA FrontIsRow ==
  ASSUME NEW js \in Seq(JavaGoals), NEW p
  PROVE  Row(p, ToGoals(js)) = AsSeenAt(p, js)
<1>1. DOMAIN ToGoals(js) = DOMAIN js
  BY Zenon DEF ToGoals
<1>2. \A i \in DOMAIN js : ToGoals(js)[i] = ToGoal(js[i])
  BY Zenon DEF ToGoals
<1> QED
  BY <1>1, <1>2, Zenon DEF Row, AsSeenAt

\* The goal of one step leaves the list where it leaves the store.
LEMMA StepLeaves ==
  ASSUME NEW gs \in Stores(Goals), NEW e \in JavaEntries, NEW from,
         from.priority = e.priority, from.goal = ToGoal(e.goal), NEW left \in StepDone(gs, from)
  PROVE  ConvertGoalsToJava(left)
           \in List!Left(Seen(e), Parse[e.goal.fact].oneStepTowards, ConvertGoalsToJava(gs))
<1> DEFINE p == from.priority
<1> DEFINE places == {i \in DOMAIN gs[p] : gs[p][i] = from.goal}
<1> DEFINE oneStep == Parse[e.goal.fact].oneStepTowards
<1>1. p \in Priorities /\ from.goal \in Goals /\ e.goal \in JavaGoals
  BY ToGoalType DEF JavaEntries
<1>2. Parse[from.goal.text].oneStepTowards = oneStep
  BY DEF ToGoal
<1>3. Seen(e) = NewJavaGoalWithPriority(p, from.goal)
  BY SeenIs
<1>4. PICK l \in Seq(GoalEntries) : l = ConvertGoalsToJava(gs)
  BY ConvertSorted
<1> DEFINE shown == {j \in DOMAIN l : l[j] = Seen(e)}
<1>5. left \in IF oneStep /\ places # {} THEN {Without(gs, p, i) : i \in places} ELSE {gs}
  <2> HIDE DEF oneStep
  <2> QED
    BY <1>2 DEF StepDone
<1>6. List!Left(Seen(e), oneStep, l)
        = IF oneStep /\ shown # {} THEN {List!RemoveAt(l, j) : j \in shown} ELSE {l}
  BY Zenon DEF List!Left
<1> HIDE DEF oneStep
<1>7. CASE oneStep /\ places # {}
  <2>1. PICK i \in places : left = Without(gs, p, i)
    BY <1>5, <1>7
  <2>2. i \in DOMAIN gs[p] /\ gs[p][i] = from.goal
    OBVIOUS
  <2> HIDE DEF places, p
  <2>3. PICK j \in DOMAIN l : /\ ConvertGoalsToJava(left) = List!RemoveAt(l, j)
                              /\ l[j] = NewJavaGoalWithPriority(p, gs[p][i])
    BY <1>1, <1>4, <2>1, <2>2, WithoutIsRemoveAt
  <2>4. j \in shown
    BY <1>3, <2>2, <2>3
  <2> HIDE DEF shown
  <2>5. ConvertGoalsToJava(left) \in {List!RemoveAt(l, i2) : i2 \in shown} /\ shown # {}
    BY <2>3, <2>4
  <2> QED
    BY <1>4, <1>6, <1>7, <2>5 DEF oneStep
<1>8. CASE ~ oneStep
  <2>1. left = gs
    BY <1>5, <1>8
  <2>2. List!Left(Seen(e), oneStep, l) = {l}
    <3> HIDE DEF shown
    <3> QED
      BY <1>6, <1>8
  <2> QED
    BY <1>4, <2>1, <2>2 DEF oneStep
<1>9. CASE oneStep /\ places = {}
  <2>1. left = gs
    <3> HIDE DEF places
    <3> QED
      BY <1>5, <1>9
  <2>2. shown = {}
    <3> SUFFICES ASSUME NEW j \in DOMAIN l, l[j] = Seen(e) PROVE FALSE
      OBVIOUS
    <3>1. l \in Seq(EntriesOf(gs))
      BY <1>4, ConvertHasGoals
    <3>2. PICK q \in Priorities : \E i \in DOMAIN gs[q] : Seen(e) = NewJavaGoalWithPriority(q, gs[q][i])
      BY <3>1, ElementOfSeq, LenProperties DEF EntriesOf
    <3>3. PICK i \in DOMAIN gs[q] : Seen(e) = NewJavaGoalWithPriority(q, gs[q][i])
      BY <3>2
    <3>4. gs[q][i] \in Goals
      BY DEF Stores
    <3>5. q = p /\ NewJavaGoal(gs[q][i]) = NewJavaGoal(from.goal)
      BY <1>3, <3>3 DEF NewJavaGoalWithPriority
    <3>6. gs[q][i] = from.goal
      BY <1>1, <3>4, <3>5, ThereAndBack
    <3> QED
      BY <1>9, <3>5, <3>6
  <2>3. List!Left(Seen(e), oneStep, l) = {l}
    <3> HIDE DEF shown
    <3> QED
      BY <1>6, <2>2
  <2> QED
    BY <1>4, <2>1, <2>3 DEF oneStep
<1> QED
  BY <1>7, <1>8, <1>9

\* The goals that an action done adds, with those of an inference it fires.
LEMMA ActionAdds ==
  ASSUME NEW left \in Stores(Goals), NEW e \in Effects, NEW f \in Seq(JavaEntries),
         NEW i, i.goalsToAdd = ToGoalsWithPriorities(f), NEW p \in Priorities
  PROVE  ConvertGoalsToJava(Added(left, ToAction(e), i, p))
           = List!InsertFront(List!AddAll(ConvertGoalsToJava(left), AsSeen(f \o e.goalsToAdd)),
                              AsSeenAt(p, e.goalsToAddInCurrentPriority), p)
<1> DEFINE a == ToAction(e)
<1> DEFINE g == e.goalsToAdd
<1> DEFINE js == e.goalsToAddInCurrentPriority
<1>1. a.goalsToAdd = ToGoalsWithPriorities(g) /\ a.goalsToAddInCurrentPriority = ToGoals(js)
  BY DEF ToAction
<1>2. g \in Seq(JavaEntries) /\ js \in Seq(JavaGoals)
  BY EffectsAssumption
<1> HIDE DEF a, g, js
<1>3. PICK more \in Stores(Goals) : more = PushedBack(left, i.goalsToAdd)
  BY ToGoalsWithPrioritiesType, PushedBackType
<1>4. PICK back \in Stores(Goals) : back = PushedBack(more, a.goalsToAdd)
  BY <1>1, <1>2, ToGoalsWithPrioritiesType, PushedBackType
<1>5. AddsMore(left, f, g)
  BY <1>2, PushedBackAddsBoth
<1>6. ConvertGoalsToJava(back) = List!AddAll(ConvertGoalsToJava(left), AsSeen(f \o g))
  BY <1>1, <1>3, <1>4, <1>5, Zenon DEF AddsMore
<1>7. ToGoals(js) \in Seq(Goals) /\ Row(p, ToGoals(js)) = AsSeenAt(p, js)
  BY <1>2, ToGoalsType, FrontIsRow
<1>8. ConvertGoalsToJava(PushedFront(back, p, ToGoals(js)))
        = List!InsertFront(ConvertGoalsToJava(back), Row(p, ToGoals(js)), p)
  BY <1>7, ConvertPushedFront
<1>9. Added(left, a, i, p) = PushedFront(back, p, ToGoals(js))
  BY <1>1, <1>3, <1>4, Zenon DEF Added
<1> QED
  BY <1>6, <1>7, <1>8, <1>9, Zenon DEF a, g, js

LEMMA NoGoalsConverted == ConvertGoalsToJava(NoGoals) = <<>>
<1>1. NoGoals \in Stores(Goals)
  BY EmptySeq DEF NoGoals, Stores
<1>2. <<>> \in Seq(GoalEntries) /\ Sorted(<<>>)
  BY EmptySeq DEF Sorted
<1>3. ASSUME NEW p \in Priorities PROVE Those(<<>>, At(GoalEntries, p)) = Row(p, NoGoals[p])
  <2>1. NoGoals[p] = <<>>
    BY DEF NoGoals
  <2> QED
    BY <2>1, ThoseEmpty, RowEmpty, Zenon
<1> QED
  BY <1>1, <1>2, <1>3, ConvertUnique

-----------------------------------------------------------------------------
(* The calls. *)

Before == ConvertGoalsToJava(goals)
After  == ConvertGoalsToJava(goals')

LEMMA SameList ==
  ASSUME goals' = goals
  PROVE  After = Before
BY DEF Before, After

LEMMA FactCallsDoIt ==
  ASSUME GoalsTypeOK
  PROVE  FactCallsDo(Before, After)
<1>1. ASSUME NEW change \in Modifications, ModifyFacts(change)
      PROVE  \E fired \in FiredBatches : List!AddGoals(AsSeen(fired), Before, After)
  <2>1. PICK i \in Firing : goals' = PushedBack(goals, i.goalsToAdd)
    BY <1>1 DEF ModifyFacts, GoalsAfter
  <2>2. PICK f \in FiredBatches : f \in Seq(JavaEntries) /\ i.goalsToAdd = ToGoalsWithPriorities(f)
    BY FiringBatch
  <2>3. List!AddGoals(AsSeen(f), ConvertGoalsToJava(goals),
                      ConvertGoalsToJava(PushedBack(goals, ToGoalsWithPriorities(f))))
    BY <2>2, GoalsTypes, AddsBatch
  <2> QED
    BY <2>1, <2>2, <2>3, Zenon DEF Before, After
<1>2. ASSUME FlushPunctualFacts \/ FlushFactsAdded PROVE After = Before
  BY <1>2, SameList DEF FlushPunctualFacts, FlushFactsAdded
<1> QED
  BY <1>1, <1>2, Zenon DEF FactCallsDo

LEMMA GoalCallsDoIt ==
  ASSUME GoalsTypeOK
  PROVE  GoalCallsDo(Before, After)
<1>0. goals \in Stores(Goals)
  BY GoalsTypes
<1>1. ASSUME NEW e \in ClientEntries, PushFrontGoal(e)
      PROVE  List!PushFront(Seen(e), Before, After)
  <2>1. goals' = PushedFront(goals, e.priority, <<ToGoal(e.goal)>>)
    BY <1>1 DEF PushFrontGoal, GoalsBecome, ToGoalWithPriority
  <2>2. e \in JavaEntries
    BY ClientEntryType
  <2>3. List!PushFront(Seen(e), ConvertGoalsToJava(goals),
                       ConvertGoalsToJava(PushedFront(goals, e.priority, <<ToGoal(e.goal)>>)))
    BY <1>0, <2>2, PushesFront
  <2> QED
    BY <2>1, <2>3, Zenon DEF Before, After
<1>2. ASSUME NEW e \in ClientEntries, PushBackGoal(e)
      PROVE  List!PushBack(Seen(e), Before, After)
  <2>1. goals' = [goals EXCEPT ![e.priority] = Append(@, ToGoal(e.goal))]
    BY <1>2 DEF PushBackGoal, GoalsBecome, ToGoalWithPriority
  <2>2. e \in JavaEntries
    BY ClientEntryType
  <2>3. List!PushBack(Seen(e), ConvertGoalsToJava(goals),
          ConvertGoalsToJava([goals EXCEPT ![e.priority] = Append(@, ToGoal(e.goal))]))
    BY <1>0, <2>2, PushesBack
  <2> QED
    BY <2>1, <2>3, Zenon DEF Before, After
<1>3. ASSUME NEW batch \in ClientBatches, AddGoals(batch)
      PROVE  List!AddGoals(AsSeen(batch), Before, After)
  <2>1. goals' = PushedBack(goals, ToGoalsWithPriorities(batch))
    BY <1>3 DEF AddGoals, GoalsBecome
  <2>2. batch \in Seq(JavaEntries)
    BY ClientBatchType
  <2>3. List!AddGoals(AsSeen(batch), ConvertGoalsToJava(goals),
                      ConvertGoalsToJava(PushedBack(goals, ToGoalsWithPriorities(batch))))
    BY <1>0, <2>2, AddsBatch
  <2> QED
    BY <2>1, <2>3, Zenon DEF Before, After
<1>4. ASSUME NEW group \in GroupIds, RemoveGoals(group)
      PROVE  List!RemoveGroup(group, Before, After)
  <2>1. goals' = [p \in Priorities |-> Those(goals[p], {g \in Goals : g.group # group})]
    BY <1>4 DEF RemoveGoals, GoalsBecome
  <2>2. ConvertGoalsToJava([p \in Priorities |-> Those(goals[p], {g \in Goals : g.group # group})])
          = List!Those(ConvertGoalsToJava(goals), {e \in GoalEntries : e.goal.groupId # group})
    BY <1>0, GroupRemoved
  <2> QED
    BY <2>1, <2>2, Zenon DEF List!RemoveGroup, Before, After
<1>5. ASSUME NEW text \in Texts, NEW p \in Priorities, NEW front \in BOOLEAN,
             SetGoalPriority(text, p, front)
      PROVE  List!ChangePriority(text, p, front, Before, After)
  <2>1. PICK q \in Priorities : \E i \in DOMAIN goals[q] :
          goals[q][i].text = text /\ goals' = Moved(goals, q, i, p, front)
    BY <1>5 DEF SetGoalPriority, GoalsBecome, Moved
  <2>2. PICK i \in DOMAIN goals[q] :
          goals[q][i].text = text /\ goals' = Moved(goals, q, i, p, front)
    BY <2>1
  <2>3. List!ChangePriority(goals[q][i].text, p, front, ConvertGoalsToJava(goals),
                            ConvertGoalsToJava(Moved(goals, q, i, p, front)))
    BY <1>0, ChangesPriority
  <2> QED
    BY <2>2, <2>3, Zenon DEF Before, After
<1>6. ASSUME RemoveFirstGoalsThatAreAlreadySatisfied
      PROVE  List!RemoveFirstSatisfied(Satisfied(problem.facts), Before, After)
  <2>1. goals' \in FirstSatisfiedRemoved(goals, problem.facts)
    BY <1>6 DEF RemoveFirstGoalsThatAreAlreadySatisfied, GoalsBecome
  <2> QED
    BY <1>0, <2>1, RemovesSatisfied DEF Before, After
<1> QED
  BY <1>1, <1>2, <1>3, <1>4, <1>5, <1>6, Zenon DEF GoalCallsDo

LEMMA ActionIsDone ==
  ASSUME GoalsTypeOK, DomainOK, NotifyActionDone
  PROVE  \E effect \in Effects, fired \in FiredBatches :
           /\ domain[result.actionId] = ToAction(effect)
           /\ List!ActionDone(Seen(result.fromGoal),
                Parse[result.fromGoal.goal.fact].oneStepTowards,
                AsSeen(fired \o effect.goalsToAdd),
                AsSeenAt(result.fromGoal.priority, effect.goalsToAddInCurrentPriority),
                Satisfied(problem'.facts), Before, After)
<1> DEFINE from == result.fromGoal
<1>0. goals \in Stores(Goals) /\ result \in Results /\ result # NoResult
  BY GoalsTypes DEF GoalsTypeOK, NotifyActionDone
<1>1. PICK a \in Actions, i \in Firing, left \in StepDone(goals, DoneFor) :
        /\ a = domain[result.actionId] /\ left \in Stores(Goals)
        /\ Added(left, a, i, DoneFor.priority) \in Stores(Goals)
        /\ goals' \in FirstSatisfiedRemoved(Added(left, a, i, DoneFor.priority), problem'.facts)
  BY <1>0, NotifyAdds, WrittenType
<1>2. PICK e \in Effects : a = ToAction(e)
  BY DEF Actions
<1>3. PICK f \in FiredBatches : f \in Seq(JavaEntries) /\ i.goalsToAdd = ToGoalsWithPriorities(f)
  BY FiringBatch
<1>4. /\ DoneFor.priority = from.priority /\ DoneFor.priority \in Priorities
      /\ DoneFor.goal = ToGoal(from.goal)
  BY <1>0, DoneForIs
<1>5. from \in JavaEntries /\ Seen(from).priority = from.priority
  <2>1. result \in [actionId : ActionIds, fromGoal : JavaEntries]
    BY <1>0 DEF Results
  <2>2. from \in JavaEntries
    BY <2>1
  <2> QED
    BY <2>2, SeenIs
<1> HIDE DEF from
<1> DEFINE p == from.priority
<1> DEFINE batch == AsSeen(f \o e.goalsToAdd)
<1> DEFINE front == AsSeenAt(p, e.goalsToAddInCurrentPriority)
<1>6. ConvertGoalsToJava(left) \in List!Left(Seen(from), Parse[from.goal.fact].oneStepTowards, Before)
  BY <1>0, <1>4, <1>5, StepLeaves DEF Before
<1>7. PICK added \in Stores(Goals) : added = Added(left, a, i, p)
  BY <1>1, <1>4
<1>8. ConvertGoalsToJava(added)
        = List!InsertFront(List!AddAll(ConvertGoalsToJava(left), batch), front, p)
  <2>1. p \in Priorities
    BY <1>4
  <2> HIDE DEF p
  <2> QED
    BY <1>1, <1>2, <1>3, <1>7, <2>1, ActionAdds
<1>9. List!RemoveFirstSatisfied(Satisfied(problem'.facts), ConvertGoalsToJava(added), After)
  BY <1>1, <1>4, <1>7, RemovesSatisfied DEF After
<1> HIDE DEF batch, front
<1>10. List!ActionDone(Seen(from), Parse[from.goal.fact].oneStepTowards, batch, front,
                       Satisfied(problem'.facts), Before, After)
  BY <1>5, <1>6, <1>8, <1>9, Zenon DEF List!ActionDone
<1> QED
  BY <1>1, <1>2, <1>10, Zenon DEF batch, front, from

LEMMA PlannerCallsDoIt ==
  ASSUME GoalsTypeOK, DomainOK
  PROVE  PlannerCallsDo(Before, After)
<1>0. goals \in Stores(Goals)
  BY GoalsTypes
<1>1. ASSUME LookForNothing PROVE After = Before
  BY <1>1, SameList DEF LookForNothing
<1>2. ASSUME FoundNothing PROVE List!ExamineAll(Before, After)
  <2>1. goals' = [p \in Priorities |-> Kept(goals[p])]
    BY <1>2 DEF FoundNothing
  <2>2. ConvertGoalsToJava([p \in Priorities |-> Kept(goals[p])])
          = List!Expire(ConvertGoalsToJava(goals), Len(ConvertGoalsToJava(goals)))
    BY <1>0, KeptIsExpire
  <2> QED
    BY <2>1, <2>2, Zenon DEF List!ExamineAll, Before, After
<1>3. ASSUME NEW a \in KnownActions, NEW q \in Priorities, NEW k \in 1 .. MaxGoals,
             FoundAction(a, q, k)
      PROVE  List!ExamineAhead(result'.fromGoal, Before, After)
  <2>1. /\ goals' = Expired(goals, q, k - 1) /\ k \in DOMAIN goals[q]
        /\ result'.fromGoal = NewJavaGoalWithPriority(q, goals[q][k])
    BY <1>3 DEF FoundAction
  <2>2. goals[q] \in Seq(Goals)
    BY <1>0 DEF Stores
  <2>3. PICK j \in 0 .. Len(goals[q]) : j = k - 1 /\ j < Len(goals[q]) /\ j + 1 = k
    BY <2>1, <2>2, LenProperties
  <2>4. PICK n \in Nat :
          /\ IsPosition(goals, q, j, n)
          /\ ConvertGoalsToJava(Expired(goals, q, j)) = List!Expire(ConvertGoalsToJava(goals), n)
    BY <1>0, ExpiredIsExpire
  <2>5. n + 1 \in DOMAIN Before /\ Before[n + 1] = NewJavaGoalWithPriority(q, goals[q][j + 1])
    BY <2>3, <2>4 DEF IsPosition, Before
  <2>6. After = List!Expire(Before, n)
    BY <2>1, <2>3, <2>4 DEF Before, After
  <2>7. PICK s \in DOMAIN Before : s = n + 1 /\ s - 1 = n
    BY <2>5
  <2>8. Before[s] = result'.fromGoal /\ After = List!Expire(Before, s - 1)
    BY <2>1, <2>3, <2>5, <2>6, <2>7
  <2> QED
    BY <2>8, Zenon DEF List!ExamineAhead
<1> QED
  BY <1>1, <1>2, <1>3, ActionIsDone, Zenon DEF PlannerCallsDo

LEMMA OtherCallsDoIt == OtherCallsDo(Before, After)
<1>1. ASSUME DisposeImplementation PROVE After = <<>>
  BY <1>1, NoGoalsConverted DEF DisposeImplementation, After
<1>2. ASSUME NewProblem \/ InferenceCalls \/ DomainCalls PROVE After = Before
  BY <1>2, SameList DEF NewProblem, InferenceCalls, AddSetOfInferences, RemoveSetOfInferences,
       DomainCalls, NewDomain, DisposeDomain, RemoveAction, AddAction, DomainBecomes
<1>3. ASSUME NEW new \in PunctualPrefixes, SetPunctualFactPrefix(new) PROVE After = Before
  BY <1>3, SameList DEF SetPunctualFactPrefix
<1> QED
  BY <1>1, <1>2, <1>3, Zenon DEF OtherCallsDo

\* Every call does to the array of getGoals what its documentation says,
\* whatever calls came before and whatever the goals, effects and inferences
\* are: each pushes at its own end, moves the goal it was given, removes the
\* group it was given, and an action notified late or twice still adds its goals
\* at the priority of its goal and drops a goal of one step where it still is.
THEOREM HandlersKeepTheGoalList == Spec => HandlersDoAsGoalListSays
<1> DEFINE Inv == IInv /\ WrittenOK
<1>0. Inv => DomainOK /\ GoalsTypeOK
  BY WrittenIsTyped DEF IInv
<1>1. Init => Inv
  BY InitIInv, InitWritten
<1>2. Inv /\ [Next]_vars => Inv'
  BY <1>0, NextIInv, NextWritten
<1>3. Inv => [LET l == ConvertGoalsToJava(goals)
                  m == ConvertGoalsToJava(goals')
              IN  FactCallsDo(l, m) /\ GoalCallsDo(l, m)
                    /\ PlannerCallsDo(l, m) /\ OtherCallsDo(l, m)]_vars
  <2> HIDE DEF Inv
  <2> SUFFICES ASSUME Inv
               PROVE  /\ FactCallsDo(Before, After) /\ GoalCallsDo(Before, After)
                      /\ PlannerCallsDo(Before, After) /\ OtherCallsDo(Before, After)
    BY Zenon DEF Before, After
  <2> QED
    BY <1>0, FactCallsDoIt, GoalCallsDoIt, PlannerCallsDoIt, OtherCallsDoIt
<1> QED
  BY <1>1, <1>2, <1>3, PTL DEF Spec, HandlersDoAsGoalListSays
=============================================================================
