SPECIFICATION Spec
CONSTANTS
  f = f
  g = g
  h = h
  u = u
  goalF = goalF
  goalIfFG = goalIfFG
  stepG = stepG
  team = team
  solo = solo
  NoCondition = NoCondition
  NoAction = NoAction
  NoResult = NoResult
  Facts = {f, g, h, u}
  PunctualWith <- FactsPunctual
  PunctualPrefixes = {standard, other}
  FirstPrefix = standard
  PrefixSetFirst = TRUE
  standard = standard
  other = other
  NoDomain = NoDomain
  Texts = {goalF}
  GroupIds = {solo}
  Priorities <- OnePriority
  Parse <- FactsParse
  ClientGoals <- FactsClientGoals
  SetsOfInferences = {s1}
  ActionIds = {a1}
  Effects <- FactsEffects
  Inferences <- FactsInferences
  MaxGoals = 1
INVARIANTS
  TypeOK
  CacheComplete
  CacheSound
  PunctualApart
