-------------------------- MODULE GoalConversions --------------------------
(***************************************************************************)
(* Goals on the two sides of the JNI bridge.  The client's goal is a       *)
(* record of the Kotlin class Goal; the library's goal is built from its   *)
(* text, in which a condition, persistence and that one step towards the   *)
(* goal is enough are written ("persist(imply(c, f))",                     *)
(* "oneStepTowards(f)").  What the library reads in a text is the constant *)
(* Parse.  The inactivity time is left out: no property is about time.     *)
(***************************************************************************)
EXTENDS Integers, FiniteSets, Selections

CONSTANTS
  Facts,        \* facts, as the texts the client writes
  Texts,        \* goal texts
  Parse,        \* what the library reads in each text
  GroupIds,     \* goal group identifiers
  Priorities,   \* the goal priorities in use
  NoCondition   \* a goal enabled in every world

ASSUME ParseAssumption ==
  Parse \in [Texts -> [target : Facts, condition : Facts \cup {NoCondition},
                       persistent : BOOLEAN, oneStepTowards : BOOLEAN]]
ASSUME PrioritiesAssumption == Priorities \subseteq Int /\ IsFiniteSet(Priorities)

\* Kotlin Goal(fact, condition, groupId) and the library's cp::Goal.
JavaGoals == [fact : Texts, condition : Facts \cup {NoCondition}, groupId : GroupIds]
Goals     == [text : Texts, group : GroupIds]

\* Kotlin GoalWithPriority, and the library's map from priorities to vectors.
JavaEntries == [priority : Priorities, goal : JavaGoals]
NoGoals     == [p \in Priorities |-> <<>>]

DescendingPriorities ==
  CHOOSE s \in [1 .. Cardinality(Priorities) -> Priorities] :
    /\ \A p \in Priorities : \E i \in DOMAIN s : s[i] = p
    /\ \A i, j \in DOMAIN s : i < j => s[i] > s[j]

-----------------------------------------------------------------------------
(* A mutant of NewJavaGoal. *)

NewJavaGoalWithoutGroup(g) ==
  [fact |-> g.text, condition |-> Parse[g.text].condition,
   groupId |-> CHOOSE anyGroup \in GroupIds : TRUE]

-----------------------------------------------------------------------------

\* The condition of the Kotlin goal is not read: only the text counts.
ToGoal(j) == [text |-> j.fact, group |-> j.groupId]

ToGoals(js) == [i \in DOMAIN js |-> ToGoal(js[i])]

\* The goal of a Kotlin goal with priority goes to the caller apart from it.
ToGoalWithPriority(e) == [goal |-> ToGoal(e.goal), priority |-> e.priority]

\* A Kotlin array of goals with priorities, grouped by priority.
ToGoalsWithPriorities(entries) ==
  [p \in Priorities |->
    LET group == Those(entries, [priority : {p}, goal : JavaGoals])
    IN  [i \in DOMAIN group |-> ToGoalWithPriority(group[i]).goal]]

\* Kotlin's Action and Inference, without the parts that only the library's
\* search reads, and its OneStepOfPlannerResult.
ToAction(effect) ==
  [facts                       |-> effect.facts,
   goalsToAdd                  |-> ToGoalsWithPriorities(effect.goalsToAdd),
   goalsToAddInCurrentPriority |-> ToGoals(effect.goalsToAddInCurrentPriority)]

ToInference(i) == [facts |-> i.facts, goalsToAdd |-> ToGoalsWithPriorities(i.goals)]

ToOneStepOfPlannerResult(r) ==
  [actionId |-> r.actionId, fromGoal |-> ToGoalWithPriority(r.fromGoal)]

\* The condition of the Kotlin goal is the one the library read in the text.
NewJavaGoal(g) ==
  [fact |-> g.text, condition |-> Parse[g.text].condition, groupId |-> g.group]

NewJavaGoalWithPriority(p, g) == [priority |-> p, goal |-> NewJavaGoal(g)]

\* The array getGoals returns: descending priorities, each vector in order.
ConvertGoalsToJava(goals) ==
  FlattenSeq([k \in DOMAIN DescendingPriorities |->
    LET p == DescendingPriorities[k]
    IN  [i \in DOMAIN goals[p] |-> NewJavaGoalWithPriority(p, goals[p][i])]])
=============================================================================
