----------------------------- MODULE ProblemJni -----------------------------
(***************************************************************************)
(* One native problem (class RobotPlannerProblem: a cp::Problem with the   *)
(* caches that the signals of the library fill) behind the handlers of     *)
(* Problem, with the domain and the planner result of its client.  Every   *)
(* handler is one atomic action: modules Mutexes and FlushCache are about  *)
(* what the locks make of that, module Handles about ids.  A call on a     *)
(* problem that is not registered does nothing and is not a step here.     *)
(*                                                                         *)
(* The library is an external submodule.  What the handlers get from it is *)
(* a contract with free choices: a modification may announce facts that    *)
(* were already there, the planner may choose any action and any goal that *)
(* is enabled and not satisfied, an attached set of inferences may fire    *)
(* once after a modification, of several goals that are equal any may be   *)
(* the one that is meant.                                                  *)
(***************************************************************************)
EXTENDS GoalConversions

CONSTANTS
  PunctualPrefixes, \* punctual prefixes the client sets
  FirstPrefix,     \* the library's own
  PunctualWith,    \* the facts that carry each prefix
  PrefixSetFirst,  \* the client sets the prefix only while it has no problem
  SetsOfInferences,
  ActionIds,
  Effects,         \* effects of Kotlin actions, see EffectsAssumption
  Inferences,      \* Kotlin inferences, see InferencesAssumption
  ClientGoals,     \* Kotlin goals the client adds
  MaxGoals,        \* bound: goals in the problem
  NoAction,        \* an action id the domain does not hold
  NoDomain,        \* the client has no domain, or disposed of it
  NoResult         \* the planner found no action

Modifications == {m \in [add : SUBSET Facts, del : SUBSET Facts] : m.add \cap m.del = {}}

ASSUME PrefixAssumption ==
  /\ FirstPrefix \in PunctualPrefixes /\ PunctualWith \in [PunctualPrefixes -> SUBSET Facts]
  /\ PrefixSetFirst \in BOOLEAN
ASSUME EffectsAssumption == \A e \in Effects :
  e.facts \in Modifications /\ e.goalsToAdd \in Seq(JavaEntries)
    /\ e.goalsToAddInCurrentPriority \in Seq(JavaGoals)
ASSUME InferencesAssumption == \A i \in Inferences :
  i.facts \in Modifications /\ i.goals \in Seq(JavaEntries)
ASSUME ClientGoalsAssumption == ClientGoals \subseteq JavaGoals

VARIABLES
  prefix,     \* cp::Fact::punctualPrefix, a global variable
  exists,     \* the registry holds the problem
  problem,    \* the facts and their caches, a record of Problems
  goals,      \* the library's goals, by priority
  attached,   \* the sets of inferences attached to the problem
  domain,     \* the actions of the client's domain, converted
  result      \* what lookForAnActionToDo returned last

vars == <<prefix, exists, problem, goals, attached, domain, result>>

\* undelivered is a history variable: the facts stored since the last
\* flushFactsAdded and still there.
Problems == [facts : SUBSET Facts, factsAdded : SUBSET Facts,
             punctualFacts : SUBSET Facts, undelivered : SUBSET Facts]
EmptyProblem == [facts |-> {}, factsAdded |-> {}, punctualFacts |-> {}, undelivered |-> {}]

Actions == {ToAction(effect) : effect \in Effects}
Domains == {NoDomain} \cup [ActionIds -> Actions \cup {NoAction}]

Init ==
  /\ prefix = FirstPrefix
  /\ exists = FALSE /\ problem = EmptyProblem /\ goals = NoGoals /\ attached = {}
  /\ domain = NoDomain
  /\ result = NoResult

-----------------------------------------------------------------------------
(* Mutants of the definitions below. *)

OnPunctualFactsInFactsAdded(p, raised) == [p EXCEPT !.factsAdded = @ \cup raised]
OnFactsAddedReplaces(p, announced)     == [p EXCEPT !.factsAdded = announced]
OnFactsRemovedIgnored(p, removed)      == p

PushFrontGoalBehind(e) ==
  /\ exists
  /\ goals' = [goals EXCEPT ![e.priority] = Append(@, ToGoal(e.goal))]
  /\ Len(ConvertGoalsToJava(goals')) <= MaxGoals
  /\ UNCHANGED <<prefix, exists, problem, attached, domain, result>>

FoundActionUnconverted(a, q, k) ==
  /\ exists /\ k \in DOMAIN goals[q]
  /\ result' = [actionId |-> a, fromGoal |-> goals[q][k]]
  /\ UNCHANGED <<prefix, exists, problem, goals, attached, domain>>

-----------------------------------------------------------------------------
(* The punctual prefix. *)

\* The library compares a fact with the prefix of the moment it is modified.
Punctual == PunctualWith[prefix]

SetPunctualFactPrefix(new) ==
  /\ PrefixSetFirst => ~ exists
  /\ prefix' = new
  /\ UNCHANGED <<exists, problem, goals, attached, domain, result>>

-----------------------------------------------------------------------------
(* The callbacks that newProblem connects to the library's signals. *)

OnPunctualFacts(p, raised)   == [p EXCEPT !.punctualFacts = @ \cup raised]
OnFactsAdded(p, announced)   == [p EXCEPT !.factsAdded = @ \cup announced]
OnFactsRemoved(p, removed)   == [p EXCEPT !.factsAdded = @ \ removed]

\* The library's own facts after modification m.
Stored(p, m) ==
  LET stored == m.add \ Punctual
  IN  [p EXCEPT !.facts = (@ \cup stored) \ m.del,
                !.undelivered = (@ \cup (stored \ p.facts)) \ m.del]

\* The library applies a modification and raises its signals.
Modified(p, m) ==
  {OnFactsRemoved(OnFactsAdded(OnPunctualFacts(Stored(p, m), m.add \cap Punctual),
                               announced), m.del) :
     announced \in {a \in SUBSET (m.add \ Punctual) : m.add \ (Punctual \cup p.facts) \subseteq a}}

-----------------------------------------------------------------------------
(* The library's work on the goals. *)

Fits(gs) == Len(ConvertGoalsToJava(gs)) <= MaxGoals

PushedBack(gs, more)  == [p \in Priorities |-> gs[p] \o more[p]]
PushedFront(gs, p, s) == [gs EXCEPT ![p] = s \o @]
Without(gs, p, i)     == [gs EXCEPT ![p] = RemoveAt(@, i)]

NotSatisfied(g, facts) ==
  LET parsed == Parse[g.text]
  IN  parsed.target \notin facts /\ parsed.condition \in facts \cup {NoCondition}

\* The goals ahead of position k + 1 of priority q were examined: those that
\* are not persistent are dropped.
Kept(s) == Those(s, {g \in Goals : Parse[g.text].persistent})
KeptAhead(s, k) == Kept(SubSeq(s, 1, k)) \o SubSeq(s, k + 1, Len(s))
Expired(gs, q, k) ==
  [p \in Priorities |->
    CASE p > q -> Kept(gs[p])
      [] p = q -> KeptAhead(gs[p], k)
      [] p < q -> gs[p]]

\* All goals ahead of that position are satisfied, the goal there is not.
IsFirstNotSatisfied(gs, q, k, facts) ==
  /\ \A p \in Priorities : \A i \in DOMAIN gs[p] :
       (p > q \/ (p = q /\ i <= k)) => ~ NotSatisfied(gs[p][i], facts)
  /\ IF k = Len(gs[q]) THEN \A p \in Priorities : p < q => gs[p] = <<>>
                       ELSE NotSatisfied(gs[q][k + 1], facts)

\* The goals left when the first goals that are satisfied are removed.
FirstSatisfiedRemoved(gs, facts) ==
  {Expired(gs, c[1], c[2]) : c \in {d \in Priorities \X (0 .. MaxGoals) :
     d[2] <= Len(gs[d[1]]) /\ IsFirstNotSatisfied(gs, d[1], d[2], facts)}}

-----------------------------------------------------------------------------
(* The handlers of Problem. *)

NewProblem ==
  /\ ~ exists /\ exists' = TRUE
  /\ UNCHANGED <<prefix, problem, goals, attached, domain, result>>

\* The erased entry takes its facts, caches, goals and attached sets with it.
DisposeImplementation ==
  /\ exists /\ exists' = FALSE
  /\ problem' = EmptyProblem /\ goals' = NoGoals /\ attached' = {}
  /\ UNCHANGED <<prefix, domain, result>>

\* What an attached inference does after a modification, or nothing.
Nothing == [facts |-> [add |-> {}, del |-> {}], goalsToAdd |-> NoGoals]
Firing  == {Nothing} \cup IF attached = {} THEN {} ELSE {ToInference(i) : i \in Inferences}

ProblemsAfter(m, i) == UNION {Modified(p, i.facts) : p \in Modified(problem, m)}
GoalsAfter(i)       == PushedBack(goals, i.goalsToAdd)

ModifyFacts(m) ==
  /\ exists
  /\ UNCHANGED <<prefix, exists, attached, domain, result>>
  /\ \E i \in Firing :
       /\ goals' = GoalsAfter(i) /\ Fits(goals')
       /\ problem' \in ProblemsAfter(m, i)

AddFact(f)    == ModifyFacts([add |-> {f}, del |-> {}])
RemoveFact(f) == ModifyFacts([add |-> {}, del |-> {f}])

\* The goal handlers differ in what the library does with the goals.
GoalsBecome(gs) ==
  /\ exists /\ UNCHANGED <<prefix, exists, problem, attached, domain, result>>
  /\ goals' = gs /\ Fits(goals')

PushFrontGoal(e) ==
  LET new == ToGoalWithPriority(e)
  IN  GoalsBecome(PushedFront(goals, new.priority, <<new.goal>>))

PushBackGoal(e) ==
  LET new == ToGoalWithPriority(e)
  IN  GoalsBecome([goals EXCEPT ![new.priority] = Append(@, new.goal)])

AddGoals(entries) ==
  GoalsBecome(PushedBack(goals, ToGoalsWithPriorities(entries)))

RemoveGoals(group) ==
  GoalsBecome([p \in Priorities |-> Those(goals[p], {g \in Goals : g.group # group})])

\* The goal with this text moves to another priority.
SetGoalPriority(text, p, front) ==
  \E q \in Priorities : \E i \in DOMAIN goals[q] :
    /\ goals[q][i].text = text
    /\ LET moved == goals[q][i]
           rest  == Without(goals, q, i)
       IN  GoalsBecome(IF front THEN PushedFront(rest, p, <<moved>>)
                                ELSE [rest EXCEPT ![p] = Append(@, moved)])

RemoveFirstGoalsThatAreAlreadySatisfied ==
  \E gs \in FirstSatisfiedRemoved(goals, problem.facts) : GoalsBecome(gs)

AddSetOfInferences(s) ==
  /\ exists /\ attached' = attached \cup {s}
  /\ UNCHANGED <<prefix, exists, problem, goals, domain, result>>

RemoveSetOfInferences(s) ==
  /\ exists /\ attached' = attached \ {s}
  /\ UNCHANGED <<prefix, exists, problem, goals, domain, result>>

\* Both flushes copy their cache into the array they return and clear it.
FlushPunctualFacts ==
  /\ exists /\ problem' = [problem EXCEPT !.punctualFacts = {}]
  /\ UNCHANGED <<prefix, exists, goals, attached, domain, result>>

FlushFactsAdded ==
  /\ exists
  /\ problem' = [problem EXCEPT !.factsAdded = {}, !.undelivered = @ \ problem.factsAdded]
  /\ UNCHANGED <<prefix, exists, goals, attached, domain, result>>

-----------------------------------------------------------------------------
(* The planning loop and the domain it plans with. *)

KnownActions ==
  IF domain = NoDomain THEN {} ELSE {a \in ActionIds : domain[a] # NoAction}

\* Without a problem or a domain there is nothing to look for.
LookForNothing ==
  /\ ~ exists \/ domain = NoDomain
  /\ result' = NoResult
  /\ UNCHANGED <<prefix, exists, problem, goals, attached, domain>>

\* No action found: every goal was examined.
FoundNothing ==
  /\ exists /\ domain # NoDomain
  /\ goals' = [p \in Priorities |-> Kept(goals[p])]
  /\ result' = NoResult
  /\ UNCHANGED <<prefix, exists, problem, attached, domain>>

\* The goals ahead of the one acted for were examined.
FoundAction(a, q, k) ==
  /\ exists
  /\ k \in DOMAIN goals[q] /\ NotSatisfied(goals[q][k], problem.facts)
  /\ goals' = Expired(goals, q, k - 1)
  /\ result' = [actionId |-> a, fromGoal |-> NewJavaGoalWithPriority(q, goals[q][k])]
  /\ UNCHANGED <<prefix, exists, problem, attached, domain>>

LookForAnActionToDo ==
  LookForNothing \/ FoundNothing
    \/ \E a \in KnownActions, q \in Priorities, k \in 1 .. MaxGoals : FoundAction(a, q, k)

\* One step was made towards the goal acted for: if that is enough for it, it is
\* dropped, unless it is no longer there.
StepDone(gs, from) ==
  LET places == {i \in DOMAIN gs[from.priority] : gs[from.priority][i] = from.goal}
  IN  IF Parse[from.goal.text].oneStepTowards /\ places # {}
      THEN {Without(gs, from.priority, i) : i \in places}
      ELSE {gs}

\* The goals of an inference fired and of the effect of an action are added.
Added(gs, effect, i, p) ==
  PushedFront(PushedBack(PushedBack(gs, i.goalsToAdd), effect.goalsToAdd),
              p, effect.goalsToAddInCurrentPriority)

\* The client may notify a result of long ago, or the same one twice.  The
\* effect applied is the one the domain has for the action now.
NotifyActionDone ==
  /\ exists /\ result # NoResult
  /\ LET done   == ToOneStepOfPlannerResult(result)
         effect == domain[done.actionId]
     IN  /\ done.actionId \in KnownActions
         /\ \E i \in Firing, left \in StepDone(goals, done.fromGoal) :
              /\ problem' \in ProblemsAfter(effect.facts, i)
              /\ LET added == Added(left, effect, i, done.fromGoal.priority)
                 IN  /\ Fits(added)
                     /\ goals' \in FirstSatisfiedRemoved(added, problem'.facts)
  /\ UNCHANGED <<prefix, exists, attached, domain, result>>

\* Of two actions with one id a new domain keeps the first.
IsFirst(batch, n, a) == batch[n].id = a /\ \A k \in 1 .. n - 1 : batch[k].id # a
ActionsOf(batch) ==
  [a \in ActionIds |->
    IF \E n \in DOMAIN batch : IsFirst(batch, n, a)
    THEN ToAction(batch[CHOOSE n \in DOMAIN batch : IsFirst(batch, n, a)].effect)
    ELSE NoAction]

DomainBecomes(d) ==
  /\ domain' = d
  /\ UNCHANGED <<prefix, exists, problem, goals, attached, result>>

NewDomain(batch) == domain = NoDomain /\ DomainBecomes(ActionsOf(batch))

DisposeDomain == domain # NoDomain /\ DomainBecomes(NoDomain)

\* Adding an id the domain holds keeps the old action or replaces it.
AddAction(a, effect) ==
  /\ domain # NoDomain
  /\ \/ DomainBecomes([domain EXCEPT ![a] = ToAction(effect)])
     \/ domain[a] # NoAction /\ DomainBecomes(domain)

RemoveAction(a) ==
  domain # NoDomain /\ DomainBecomes([domain EXCEPT ![a] = NoAction])

-----------------------------------------------------------------------------

FactCalls ==
  \/ \E m \in Modifications : ModifyFacts(m)
  \/ \E f \in Facts : AddFact(f) \/ RemoveFact(f)
  \/ FlushPunctualFacts
  \/ FlushFactsAdded

ClientEntries == [priority : Priorities, goal : ClientGoals]
ClientBatches == {<<e, d>> : e, d \in ClientEntries}

GoalCalls ==
  \/ \E e \in ClientEntries : PushFrontGoal(e) \/ PushBackGoal(e)
  \/ \E batch \in ClientBatches : AddGoals(batch)
  \/ \E group \in GroupIds : RemoveGoals(group)
  \/ \E text \in Texts, p \in Priorities, front \in BOOLEAN : SetGoalPriority(text, p, front)
  \/ RemoveFirstGoalsThatAreAlreadySatisfied

InferenceCalls ==
  \E s \in SetsOfInferences : AddSetOfInferences(s) \/ RemoveSetOfInferences(s)

\* Every domain can be made of one action for each id and one more.
ActionBatches ==
  UNION {[1 .. n -> [id : ActionIds, effect : Effects]] : n \in 0 .. Cardinality(ActionIds) + 1}

DomainCalls ==
  \/ \E batch \in ActionBatches : NewDomain(batch)
  \/ DisposeDomain
  \/ \E a \in ActionIds : RemoveAction(a) \/ \E effect \in Effects : AddAction(a, effect)

Next ==
  \/ \E new \in PunctualPrefixes : SetPunctualFactPrefix(new)
  \/ NewProblem
  \/ DisposeImplementation
  \/ FactCalls
  \/ GoalCalls
  \/ InferenceCalls
  \/ LookForAnActionToDo
  \/ NotifyActionDone
  \/ DomainCalls

Spec == Init /\ [][Next]_vars

-----------------------------------------------------------------------------

Results == {NoResult} \cup [actionId : ActionIds, fromGoal : JavaEntries]

FactsTypeOK == problem \in Problems
GoalsTypeOK ==
  /\ goals \in [Priorities -> Seq(Goals)]
  /\ result \in Results
TypeOK ==
  /\ prefix \in PunctualPrefixes /\ exists \in BOOLEAN
  /\ FactsTypeOK /\ GoalsTypeOK
  /\ attached \subseteq SetsOfInferences
  /\ domain \in Domains

\* No fact the client has not been told of is missing from the cache that
\* flushFactsAdded returns, whatever modified the facts: a handler, an action
\* done, an inference fired by either.
CacheComplete == problem.undelivered \subseteq problem.factsAdded

\* A fact that was added then removed is not in the cache (Problem.kt:141):
\* what flushFactsAdded returns is true when it returns.
CacheSound == problem.factsAdded \subseteq problem.facts

\* No fact with the punctual prefix is stored or announced as added, and none
\* without it is raised as punctual, if no problem sees the prefix change.
PunctualApart ==
  /\ problem.facts \cap Punctual = {} /\ problem.factsAdded \cap Punctual = {}
  /\ problem.punctualFacts \subseteq Punctual

\* Handing the array of getGoals back to addGoals of an empty problem gives
\* the same goals in the same order: the two conversions lose nothing.
GoalsSurviveTheBridge == ToGoalsWithPriorities(ConvertGoalsToJava(goals)) = goals

\* The list of goals as the client sees it.
GoalEntries == {NewJavaGoalWithPriority(p, g) : p \in Priorities, g \in Goals}
Seen(e) == NewJavaGoalWithPriority(e.priority, ToGoal(e.goal))
AsSeen(entries) == [i \in DOMAIN entries |-> Seen(entries[i])]
HasPersistentGoal(e) == Parse[e.goal.fact].persistent
List == INSTANCE GoalList WITH Entries <- GoalEntries, IsPersistent <- HasPersistentGoal

AsSeenAt(p, js) == [i \in DOMAIN js |-> NewJavaGoalWithPriority(p, ToGoal(js[i]))]
Satisfied(facts) == {e \in GoalEntries : ~ NotSatisfied(ToGoal(e.goal), facts)}

\* What the sets of inferences attached now may add.
FiredBatches == {<<>>} \cup IF attached = {} THEN {} ELSE {i.goals : i \in Inferences}

\* What each call does to the list of getGoals before it, l, and after it, m.
FactCallsDo(l, m) ==
  /\ (\E change \in Modifications : ModifyFacts(change)) =>
       \E fired \in FiredBatches : List!AddGoals(AsSeen(fired), l, m)
  /\ FlushPunctualFacts \/ FlushFactsAdded => m = l

GoalCallsDo(l, m) ==
  /\ \A e \in ClientEntries :
       /\ PushFrontGoal(e) => List!PushFront(Seen(e), l, m)
       /\ PushBackGoal(e)  => List!PushBack(Seen(e), l, m)
  /\ \A batch \in ClientBatches : AddGoals(batch) => List!AddGoals(AsSeen(batch), l, m)
  /\ \A group \in GroupIds : RemoveGoals(group) => List!RemoveGroup(group, l, m)
  /\ \A text \in Texts, p \in Priorities, front \in BOOLEAN :
       SetGoalPriority(text, p, front) => List!ChangePriority(text, p, front, l, m)
  /\ RemoveFirstGoalsThatAreAlreadySatisfied =>
       List!RemoveFirstSatisfied(Satisfied(problem.facts), l, m)

PlannerCallsDo(l, m) ==
  /\ LookForNothing => m = l
  /\ FoundNothing => List!ExamineAll(l, m)
  /\ (\E a \in KnownActions, q \in Priorities, k \in 1 .. MaxGoals : FoundAction(a, q, k)) =>
       List!ExamineAhead(result'.fromGoal, l, m)
  /\ NotifyActionDone =>
       \E effect \in Effects, fired \in FiredBatches :
         /\ domain[result.actionId] = ToAction(effect)
         /\ List!ActionDone(Seen(result.fromGoal), Parse[result.fromGoal.goal.fact].oneStepTowards,
              AsSeen(fired \o effect.goalsToAdd),
              AsSeenAt(result.fromGoal.priority, effect.goalsToAddInCurrentPriority),
              Satisfied(problem'.facts), l, m)

OtherCallsDo(l, m) ==
  /\ DisposeImplementation => m = <<>>
  /\ NewProblem \/ InferenceCalls \/ DomainCalls => m = l
  /\ \A new \in PunctualPrefixes : SetPunctualFactPrefix(new) => m = l

\* Each call does to the list of getGoals what its documentation says, and
\* nothing else (Problem.kt:32-56, 95-104): front or bottom as told, the group
\* that was named, the first satisfied goals and no others; an action notified
\* late or twice adds its goals at the priority it was chosen for and drops a
\* goal of one step only if it is still there.
HandlersDoAsGoalListSays ==
  [][LET l == ConvertGoalsToJava(goals)
         m == ConvertGoalsToJava(goals')
     IN  FactCallsDo(l, m) /\ GoalCallsDo(l, m) /\ PlannerCallsDo(l, m) /\ OtherCallsDo(l, m)]_vars

\* The condition of a goal must be present in the world to enable the goal
\* (Goal.kt:6): an action found is for a goal that was written with a
\* condition that holds, or with none.
KotlinGoals ==
  {j \in JavaGoals :
     \/ j \in ClientGoals
     \/ \E e \in Effects :
          \/ \E k \in DOMAIN e.goalsToAdd : j = e.goalsToAdd[k].goal
          \/ \E k \in DOMAIN e.goalsToAddInCurrentPriority : j = e.goalsToAddInCurrentPriority[k]
     \/ \E i \in Inferences : \E k \in DOMAIN i.goals : j = i.goals[k].goal}
ConditionEnablesGoal ==
  [][result' # result /\ result' # NoResult =>
       \E j \in KotlinGoals :
         /\ ToGoal(j) = ToGoal(result'.fromGoal.goal)
         /\ j.condition \in problem.facts \cup {NoCondition}]_vars
=============================================================================
