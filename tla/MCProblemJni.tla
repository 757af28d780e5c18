--------------------------- MODULE MCProblemJni ---------------------------
(***************************************************************************)
(* Instances of ProblemJni for TLC.  The first one is about facts: three   *)
(* facts that are stored and a punctual one, one goal, an action and an    *)
(* inference that both add and remove facts.  The second one is about      *)
(* goals: two priorities, two groups, a persistent goal with a condition,  *)
(* a goal of one step, an action that adds one goal at a given and one at  *)
(* the current priority, an inference that adds a goal.                    *)
(***************************************************************************)
EXTENDS ProblemJni

CONSTANTS f, g, h, u, goalF, goalIfFG, stepG, team, solo, standard, other

\* --- facts ---
Plain(target) ==
  [target |-> target, condition |-> NoCondition, persistent |-> FALSE, oneStepTowards |-> FALSE]
FactsParse == goalF :> Plain(f)
FactsClientGoals == {[fact |-> goalF, condition |-> NoCondition, groupId |-> solo]}
FactsEffects ==
  {[facts |-> [add |-> {f, u}, del |-> {g}], goalsToAdd |-> <<>>,
    goalsToAddInCurrentPriority |-> <<>>]}
FactsInferences == {[facts |-> [add |-> {h}, del |-> {f}], goals |-> <<>>]}
OnePriority == {1}
FactsPunctual == standard :> {u} @@ other :> {f}
OneFactsPrefix == standard :> {u}

\* --- goals ---
GoalsParse ==
  (goalIfFG :> [Plain(g) EXCEPT !.condition = f, !.persistent = TRUE])
    @@ (stepG :> [Plain(g) EXCEPT !.oneStepTowards = TRUE])
SoloStepG == [fact |-> stepG, condition |-> NoCondition, groupId |-> solo]
TeamIfFG  == [fact |-> goalIfFG, condition |-> f, groupId |-> team]
GoalsClientGoals == {SoloStepG, TeamIfFG}
TwoPriorities == {1, 2}
GoalsPunctual == standard :> {}
GoalsEffects ==
  {[facts |-> [add |-> {f}, del |-> {}],
    goalsToAdd |-> <<[priority |-> 1, goal |-> TeamIfFG]>>,
    goalsToAddInCurrentPriority |-> <<SoloStepG>>]}
GoalsInferences ==
  {[facts |-> [add |-> {g}, del |-> {}], goals |-> <<[priority |-> 2, goal |-> TeamIfFG]>>]}

\* The caches of facts have no influence on the goals: two states that differ
\* in nothing else count as one.
GoalView == <<prefix, exists, problem.facts, goals, attached, domain, result>>

\* --- the condition written in the field of that name ---
ConditionClientGoals == {[fact |-> goalF, condition |-> g, groupId |-> solo]}
=============================================================================
