------------------------------ MODULE GoalList ------------------------------
(***************************************************************************)
(* What the calls of a client do to the one list of goals that it sees     *)
(* through getGoals, which is sorted by descending priority.  Each         *)
(* operation relates the list before it, l, to the list after it, m; that  *)
(* its goals are kept in a map of vectors does not show here.  ProblemJni  *)
(* says which call is which operation.                                     *)
(***************************************************************************)
EXTENDS Integers, Selections

CONSTANTS
  Entries,          \* goals with their priorities
  IsPersistent(_)   \* goals that are kept once they were examined

Above(p) == {e \in Entries : e.priority > p}
Below(p) == {e \in Entries : e.priority < p}

\* Put s in front of the entries of priority p, or e behind those of its own.
InsertFront(l, s, p) == Those(l, Above(p)) \o s \o Those(l, Entries \ Above(p))
InsertBack(l, e) ==
  Those(l, Entries \ Below(e.priority)) \o <<e>> \o Those(l, Below(e.priority))

\* The entries of a batch arrive one after the other.
AddAll(l, batch) ==
  LET added[n \in 0 .. Len(batch)] ==
        IF n = 0 THEN l ELSE InsertBack(added[n - 1], batch[n])
  IN  added[Len(batch)]

\* The first n goals were examined: the persistent ones stay.
Expire(l, n) ==
  Those(SubSeq(l, 1, n), {e \in Entries : IsPersistent(e)}) \o SubSeq(l, n + 1, Len(l))

-----------------------------------------------------------------------------

PushFront(e, l, m) == m = InsertFront(l, <<e>>, e.priority)

PushBack(e, l, m) == m = InsertBack(l, e)

AddGoals(batch, l, m) == m = AddAll(l, batch)

RemoveGroup(group, l, m) == m = Those(l, {e \in Entries : e.goal.groupId # group})

\* One goal of this name changes its priority; the others keep their order.
ChangePriority(name, p, front, l, m) ==
  \E i \in DOMAIN l :
    LET moved == [l[i] EXCEPT !.priority = p]
    IN  /\ l[i].goal.fact = name
        /\ m = IF front THEN InsertFront(RemoveAt(l, i), <<moved>>, p)
                        ELSE InsertBack(RemoveAt(l, i), moved)

\* The goals ahead of the first one that is not satisfied expire.
RemoveFirstSatisfied(satisfied, l, m) ==
  \E n \in 0 .. Len(l) :
    /\ \A i \in 1 .. n : l[i] \in satisfied
    /\ n < Len(l) => l[n + 1] \notin satisfied
    /\ m = Expire(l, n)

\* An action was found for e: those ahead of it expire.  None was found: all do.
ExamineAhead(e, l, m) == \E n \in DOMAIN l : l[n] = e /\ m = Expire(l, n - 1)
ExamineAll(l, m)      == m = Expire(l, Len(l))

\* An action was done for the goal e: if one step towards it is enough it is
\* dropped, where it still is; then goals are added, front ones at its priority.
Left(e, oneStep, l) ==
  LET places == {i \in DOMAIN l : l[i] = e}
  IN  IF oneStep /\ places # {} THEN {RemoveAt(l, i) : i \in places} ELSE {l}

ActionDone(e, oneStep, batch, front, satisfied, l, m) ==
  \E left \in Left(e, oneStep, l) :
    RemoveFirstSatisfied(satisfied, InsertFront(AddAll(left, batch), front, e.priority), m)
=============================================================================
