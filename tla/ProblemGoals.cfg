SPECIFICATION Spec
CONSTANTS
  f = f
  g = g
  h = h
  u = u
  goalF = goalF
  goalIfFG = goalIfFG
  stepG = stepG
  team = team
  solo = solo
  NoCondition = NoCondition
  NoAction = NoAction
  NoResult = NoResult
  Facts = {f, g}
  PunctualWith <- GoalsPunctual
  PunctualPrefixes = {standard}
  FirstPrefix = standard
  PrefixSetFirst = TRUE
  standard = standard
  other = other
  NoDomain = NoDomain
  Texts = {goalIfFG, stepG}
  GroupIds = {solo, team}
  Priorities <- TwoPriorities
  Parse <- GoalsParse
  ClientGoals <- GoalsClientGoals
  SetsOfInferences = {s1}
  ActionIds = {a1}
  Effects <- GoalsEffects
  Inferences <- GoalsInferences
  MaxGoals = 3
INVARIANTS
  GoalsSurviveTheBridge
PROPERTIES
  HandlersDoAsGoalListSays
VIEW GoalView
