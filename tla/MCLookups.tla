------------------------------ MODULE MCLookups ------------------------------
(***************************************************************************)
(* Lookups for TLC, with a build that inlines every template call:         *)
(* constructors, disposes and users of problems and domains, with an       *)
(* object that only the first thread uses and one that both share.         *)
(***************************************************************************)
EXTENDS Lookups, TLC

CONSTANTS t1, t2, x1, x2

NothingOutlined == {}
ProblemUsers ==
  {Named(n) : n \in {"newProblem", "Problem.dispose", "newDomain", "Domain.dispose", "addAction",
                     "addFact", "notifyActionDone", "lookForAnActionToDo"}}
OneConfined == (x1 :> t1) @@ (x2 :> NoThread)
=============================================================================
