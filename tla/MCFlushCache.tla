----------------------------- MODULE MCFlushCache -----------------------------
(***************************************************************************)
(* FlushCache for TLC.  The cache of added facts, in a build that inlines  *)
(* the flush and no other template call: the other handlers with a result  *)
(* then lock the mutex of another unit than their own.  The removed goals  *)
(* of a tracker, in a build that inlines all.  Three threads let two of    *)
(* them flush while one fills.                                             *)
(***************************************************************************)
EXTENDS FlushCache, TLC

NothingOutlined == {}

FactRaisers  == {Named(n) : n \in {"addFact", "notifyActionDone"}}
FactFlusher  == Named("flushFactsAdded")
\* Constructors, tracker handlers and a dispose beside them.
FactHandlers ==
  FactRaisers \cup {FactFlusher}
    \cup {Named(n) : n \in {"newProblem", "newGoalsRemovedTracker", "flushGoalsRemoved",
                            "GoalsRemovedTracker.dispose"}}
AllButTheFlush == Handlers \ {FactFlusher}

GoalRaisers  == {Named(n) : n \in {"removeGoals", "notifyActionDone", "lookForAnActionToDo"}}
GoalFlusher  == Named("flushGoalsRemoved")
GoalHandlers == GoalRaisers \cup {GoalFlusher}

Symmetry == Permutations(Threads) \cup Permutations(Items)
=============================================================================
