-------------------------- MODULE GoalsTrackerProofs --------------------------
(***************************************************************************)
(* Trackers of removed goals, proved for any number of problems, trackers, *)
(* goals and ids.  Whatever the client does the state keeps its types.  A  *)
(* client that uses no disposed object finds in each tracker exactly what  *)
(* was removed from its problem.                                           *)
(*                                                                         *)
(* The invariant: the registries hold the open handles, each at its id     *)
(* (ProblemsRegistered, TrackersRegistered), and a collector is connected  *)
(* to the problem its tracker was made for exactly as long as that problem *)
(* is open (SourcesAreWatched).  So what a problem removes reaches the     *)
(* trackers made for it and no others, also after its id was handed on.    *)
(***************************************************************************)
EXTENDS GoalsTracker, TLAPS

ProblemsRegistered ==
  /\ \A p \in Problems \cap open : id[p] \in Ids /\ problemAt[id[p]] = p
  /\ \A k \in Ids : problemAt[k] # NoObject =>
       problemAt[k] \in open /\ id[problemAt[k]] = k

TrackersRegistered ==
  /\ \A t \in Trackers \cap open : id[t] \in Ids /\ trackerAt[id[t]] = t
  /\ \A k \in Ids : trackerAt[k] # NoObject =>
       trackerAt[k] \in open /\ id[trackerAt[k]] = k

SourcesAreWatched ==
  /\ \A t \in Trackers : t \in open <=> watched[t] # NoObject
  /\ \A t \in Trackers : source[t] = IF watched[t] \in open THEN watched[t] ELSE NoObject

HeldIsDue == goalsRemoved = due

TInv ==
  /\ TypeOK /\ ProblemsRegistered /\ TrackersRegistered
  /\ SourcesAreWatched /\ HeldIsDue

-----------------------------------------------------------------------------
(* Types, for every client. *)

LEMMA InitTypeOK == Init => TypeOK
<1> SUFFICES ASSUME Init PROVE TypeOK
  OBVIOUS
<1>1. /\ id \in [Problems \cup Trackers -> {-1, 0} \cup Ids] /\ open = {}
      /\ problemAt \in [Ids -> Problems \cup {NoObject}]
      /\ trackerAt \in [Ids -> Trackers \cup {NoObject}]
  BY DEF Init
<1>2. /\ goals \in [Problems -> SUBSET Goals]
      /\ {source, watched} \subseteq [Trackers -> Problems \cup {NoObject}]
      /\ goalsRemoved \in [Trackers -> SUBSET Goals] /\ due \in [Trackers -> SUBSET Goals]
  BY DEF Init
<1>3. crashed \in BOOLEAN
  BY Zenon DEF Init
<1> QED
  BY <1>1, <1>2, <1>3 DEF TypeOK

LEMMA OpenedTypes ==
  ASSUME TypeOK, NEW object \in Problems \cup Trackers, NEW k \in {-1, 0} \cup Ids,
         Opened(object, k)
  PROVE  /\ id' \in [Problems \cup Trackers -> {-1, 0} \cup Ids]
         /\ open' \subseteq Problems \cup Trackers
BY DEF TypeOK, Opened

LEMMA NewProblemTypeOK ==
  ASSUME TypeOK, NEW p \in Problems, NEW k \in Ids, NewProblem(p, k)
  PROVE  TypeOK'
BY OpenedTypes DEF NewProblem, TypeOK, history

LEMMA DisposeProblemTypeOK ==
  ASSUME TypeOK, NEW p \in Problems, DisposeProblem(p)
  PROVE  TypeOK'
<1>1. source' \in [Trackers -> Problems \cup {NoObject}]
  BY DEF DisposeProblem, Disconnected, TypeOK
<1>2. problemAt' \in [Ids -> Problems \cup {NoObject}] /\ goals' \in [Problems -> SUBSET Goals]
  BY DEF DisposeProblem, TypeOK
<1> QED
  BY <1>1, <1>2 DEF DisposeProblem, TypeOK, history

LEMMA AddGoalTypeOK ==
  ASSUME TypeOK, NEW p \in Problems, NEW g \in Goals, AddGoal(p, g)
  PROVE  TypeOK'
<1>1. Found(problemAt, p) \in Problems
  BY DEF AddGoal, Found, TypeOK
<1> QED
  BY <1>1 DEF AddGoal, TypeOK, handles, history

LEMMA RemoveGoalsTypeOK ==
  ASSUME TypeOK, NEW p \in Problems, NEW removed \in SUBSET Goals, RemoveGoals(p, removed)
  PROVE  TypeOK'
<1>1. goals' \in [Problems -> SUBSET Goals]
  BY DEF RemoveGoals, TypeOK
<1>2. /\ goalsRemoved' \in [Trackers -> SUBSET Goals]
      /\ due' \in [Trackers -> SUBSET Goals]
  BY DEF RemoveGoals, Collect, TypeOK
<1> QED
  BY <1>1, <1>2 DEF RemoveGoals, TypeOK, handles

LEMMA NewTrackerTypeOK ==
  ASSUME TypeOK, NEW t \in Trackers, NEW p \in Problems, NEW k \in Ids,
         NewGoalsRemovedTracker(t, p, k)
  PROVE  TypeOK'
<1>1. watched' \in [Trackers -> Problems \cup {NoObject}] /\ due' \in [Trackers -> SUBSET Goals]
  BY DEF NewGoalsRemovedTracker, TypeOK
<1>2. UNCHANGED <<problemAt, goals, crashed>>
  BY DEF NewGoalsRemovedTracker
<1>3. CASE Found(problemAt, p) = NoObject
  <2>1. Opened(t, -1) /\ UNCHANGED <<trackerAt, source, goalsRemoved>>
    BY <1>3 DEF NewGoalsRemovedTracker
  <2> QED
    BY <1>1, <1>2, <2>1, OpenedTypes DEF TypeOK
<1>4. CASE Found(problemAt, p) # NoObject
  <2>1. /\ Opened(t, k) /\ trackerAt' = [trackerAt EXCEPT ![k] = t]
        /\ source' = [source EXCEPT ![t] = Found(problemAt, p)]
        /\ goalsRemoved' = [goalsRemoved EXCEPT ![t] = {}]
    BY <1>4 DEF NewGoalsRemovedTracker
  <2>2. Found(problemAt, p) \in Problems
    BY <1>4 DEF Found, TypeOK
  <2>3. /\ source' \in [Trackers -> Problems \cup {NoObject}]
        /\ trackerAt' \in [Ids -> Trackers \cup {NoObject}]
        /\ goalsRemoved' \in [Trackers -> SUBSET Goals]
    BY <2>1, <2>2 DEF TypeOK
  <2> QED
    BY <1>1, <1>2, <2>1, <2>3, OpenedTypes DEF TypeOK
<1> QED
  BY <1>3, <1>4

LEMMA FlushTypes ==
  ASSUME TypeOK, NEW t \in Trackers, FlushGoalsRemoved(t)
  PROVE  TypeOK'
BY DEF FlushGoalsRemoved, TypeOK, handles

LEMMA DisposeTrackerTypeOK ==
  ASSUME TypeOK, NEW t \in Trackers, DisposeTracker(t)
  PROVE  TypeOK'
<1>1. /\ source' \in [Trackers -> Problems \cup {NoObject}]
      /\ watched' \in [Trackers -> Problems \cup {NoObject}]
  BY DEF DisposeTracker, TypeOK
<1>2. trackerAt' \in [Ids -> Trackers \cup {NoObject}]
  BY DEF DisposeTracker, TypeOK
<1> QED
  BY <1>1, <1>2 DEF DisposeTracker, TypeOK

LEMMA NextTypeOK == TypeOK /\ [Next]_vars => TypeOK'
<1> SUFFICES ASSUME TypeOK, [Next]_vars PROVE TypeOK'
  OBVIOUS
<1>1. CASE UNCHANGED vars
  BY <1>1 DEF vars, handles, history, TypeOK
<1>2. CASE Next
  BY <1>2, NewProblemTypeOK, DisposeProblemTypeOK, AddGoalTypeOK, RemoveGoalsTypeOK,
     NewTrackerTypeOK, FlushTypes, DisposeTrackerTypeOK DEF Next
<1> QED
  BY <1>1, <1>2

\* Whatever the client does with disposed handles, the registries hold objects
\* of their own class and collectors hold goals.
THEOREM TrackersKeepTypes == Spec => []TypeOK
BY InitTypeOK, NextTypeOK, PTL DEF Spec

-----------------------------------------------------------------------------
(* A tidy client. *)

\* A handle that is open leads to its own object; and no other does.
LEMMA OpenIsFound ==
  ASSUME TInv
  PROVE  /\ \A p \in Problems \cap open : Found(problemAt, p) = p
         /\ \A t \in Trackers \cap open : Found(trackerAt, t) = t
BY DEF TInv, ProblemsRegistered, TrackersRegistered, Found

LEMMA InitTInv == Init => TInv
<1> SUFFICES ASSUME Init PROVE TInv
  OBVIOUS
<1>1. ProblemsRegistered /\ TrackersRegistered
  BY DEF Init, ProblemsRegistered, TrackersRegistered
<1>2. SourcesAreWatched /\ HeldIsDue
  BY NoObjectAssumption DEF Init, SourcesAreWatched, HeldIsDue
<1> QED
  BY <1>1, <1>2, InitTypeOK DEF TInv

LEMMA NewProblemTInv ==
  ASSUME TInv, NEW p \in Problems, NEW k \in Ids, NewProblem(p, k)
  PROVE  TInv'
<1> USE DEF TInv
<1>1. /\ p \notin open /\ p \notin Trackers /\ p # NoObject
      /\ \A t \in Trackers : watched[t] # p
      /\ problemAt[k] = NoObject
      /\ id' = [id EXCEPT ![p] = k] /\ open' = open \cup {p}
      /\ problemAt' = [problemAt EXCEPT ![k] = p]
      /\ UNCHANGED <<trackerAt, source, goalsRemoved, watched, due, crashed>>
  BY HandlesAssumption, NoObjectAssumption
     DEF NewProblem, Free, IsMissingKey, Opened, history
<1>2. ProblemsRegistered'
  <2>1. id'[p] = k /\ \A q \in Problems \ {p} : id'[q] = id[q]
    BY <1>1 DEF TypeOK
  <2>2. problemAt'[k] = p /\ \A j \in Ids \ {k} : problemAt'[j] = problemAt[j]
    BY <1>1 DEF TypeOK
  <2>3. \A j \in Ids : problemAt[j] \in Problems \cup {NoObject}
    BY DEF TypeOK
  <2> QED
    BY <1>1, <2>1, <2>2, <2>3, NoObjectAssumption DEF ProblemsRegistered
<1>3. TrackersRegistered'
  <2>1. \A t \in Trackers : (t \in open' <=> t \in open) /\ id'[t] = id[t]
    BY <1>1 DEF TypeOK
  <2>2. \A j \in Ids : trackerAt[j] # NoObject => trackerAt[j] \in Trackers
    BY DEF TypeOK
  <2> QED
    BY <1>1, <2>1, <2>2 DEF TrackersRegistered
<1>4. SourcesAreWatched' /\ HeldIsDue'
  BY <1>1 DEF SourcesAreWatched, HeldIsDue
<1> QED
  BY <1>2, <1>3, <1>4, NewProblemTypeOK

LEMMA DisposeProblemTInv ==
  ASSUME TInv, NEW p \in Problems, DisposeProblem(p)
  PROVE  TInv'
<1> USE DEF TInv
<1>1. /\ p \in open /\ p \notin Trackers /\ open' = open \ {p}
      /\ id[p] \in Ids /\ problemAt[id[p]] = p /\ p # NoObject
      /\ problemAt' = [problemAt EXCEPT ![id[p]] = NoObject]
      /\ source' = [t \in Trackers |-> IF source[t] = p THEN NoObject ELSE source[t]]
      /\ UNCHANGED <<id, trackerAt, goalsRemoved, watched, due, crashed>>
  BY OpenIsFound, HandlesAssumption, NoObjectAssumption
     DEF DisposeProblem, Disconnected, ProblemsRegistered, history
<1>2. ProblemsRegistered'
  BY <1>1 DEF TypeOK, ProblemsRegistered
<1>3. TrackersRegistered'
  BY <1>1 DEF TypeOK, TrackersRegistered
<1>4. SourcesAreWatched' /\ HeldIsDue'
  BY <1>1 DEF TypeOK, SourcesAreWatched, HeldIsDue
<1> QED
  BY <1>2, <1>3, <1>4, DisposeProblemTypeOK

LEMMA AddGoalTInv ==
  ASSUME TInv, NEW p \in Problems, NEW g \in Goals, AddGoal(p, g)
  PROVE  TInv'
BY AddGoalTypeOK DEF AddGoal, handles, history, TInv, ProblemsRegistered, TrackersRegistered,
                     SourcesAreWatched, HeldIsDue

LEMMA RemoveGoalsTInv ==
  ASSUME Tidy, TInv, NEW p \in Problems, NEW removed \in SUBSET Goals, RemoveGoals(p, removed)
  PROVE  TInv'
<1> USE DEF TInv
<1>1. /\ p \in open /\ p # NoObject
      /\ goalsRemoved' = [c \in Trackers |->
           IF source[c] = p THEN goalsRemoved[c] \cup removed ELSE goalsRemoved[c]]
      /\ due' = [t \in Trackers |-> IF watched[t] = p THEN due[t] \cup removed ELSE due[t]]
      /\ UNCHANGED <<id, open, problemAt, trackerAt, source, watched, crashed>>
  BY OpenIsFound, NoObjectAssumption DEF RemoveGoals, MayUse, Collect, handles
<1>2. \A t \in Trackers : source[t] = p <=> watched[t] = p
  BY <1>1 DEF SourcesAreWatched
<1>3. HeldIsDue'
  BY <1>1, <1>2 DEF HeldIsDue
<1>4. ProblemsRegistered' /\ TrackersRegistered' /\ SourcesAreWatched'
  BY <1>1 DEF ProblemsRegistered, TrackersRegistered, SourcesAreWatched
<1> QED
  BY <1>3, <1>4, RemoveGoalsTypeOK

\* A tidy client never makes a tracker for a problem that is not registered.
LEMMA NewTrackerTInv ==
  ASSUME Tidy, TInv, NEW t \in Trackers, NEW p \in Problems, NEW k \in Ids,
         NewGoalsRemovedTracker(t, p, k)
  PROVE  TInv'
<1> USE DEF TInv
<1>1. p \in open /\ Found(problemAt, p) = p /\ p # NoObject
  BY OpenIsFound, NoObjectAssumption DEF NewGoalsRemovedTracker, MayUse
<1>2. /\ t \notin open /\ t \notin Problems /\ t # NoObject /\ trackerAt[k] = NoObject
      /\ id' = [id EXCEPT ![t] = k] /\ open' = open \cup {t}
      /\ trackerAt' = [trackerAt EXCEPT ![k] = t]
      /\ source' = [source EXCEPT ![t] = p]
      /\ goalsRemoved' = [goalsRemoved EXCEPT ![t] = {}]
      /\ watched' = [watched EXCEPT ![t] = p] /\ due' = [due EXCEPT ![t] = {}]
      /\ UNCHANGED <<problemAt, goals, crashed>>
  BY <1>1, HandlesAssumption, NoObjectAssumption
     DEF NewGoalsRemovedTracker, Free, IsMissingKey, Opened
<1>3. ProblemsRegistered'
  <2>1. \A q \in Problems : (q \in open' <=> q \in open) /\ id'[q] = id[q]
    BY <1>2 DEF TypeOK
  <2>2. \A j \in Ids : problemAt[j] # NoObject => problemAt[j] \in Problems
    BY DEF TypeOK
  <2> QED
    BY <1>2, <2>1, <2>2 DEF ProblemsRegistered
<1>4. TrackersRegistered'
  <2>1. id'[t] = k /\ \A u \in Trackers \ {t} : id'[u] = id[u]
    BY <1>2 DEF TypeOK
  <2>2. trackerAt'[k] = t /\ \A j \in Ids \ {k} : trackerAt'[j] = trackerAt[j]
    BY <1>2 DEF TypeOK
  <2>3. \A j \in Ids : trackerAt[j] \in Trackers \cup {NoObject}
    BY DEF TypeOK
  <2> QED
    BY <1>2, <2>1, <2>2, <2>3, NoObjectAssumption DEF TrackersRegistered
<1>5. SourcesAreWatched'
  <2>1. \A u \in Trackers : watched'[u] \in open' <=> watched'[u] \in open
    BY <1>1, <1>2, NoObjectAssumption DEF TypeOK
  <2> QED
    BY <1>1, <1>2, <2>1 DEF TypeOK, SourcesAreWatched
<1>6. HeldIsDue'
  BY <1>2 DEF HeldIsDue
<1> QED
  BY <1>3, <1>4, <1>5, <1>6, NewTrackerTypeOK

LEMMA FlushTInv ==
  ASSUME Tidy, TInv, NEW t \in Trackers, FlushGoalsRemoved(t)
  PROVE  TInv'
<1> USE DEF TInv
<1>1. t \in open /\ Found(trackerAt, t) = t /\ t # NoObject
  BY OpenIsFound, NoObjectAssumption DEF FlushGoalsRemoved, MayUse
<1>2. /\ goalsRemoved' = [goalsRemoved EXCEPT ![t] = {}] /\ due' = [due EXCEPT ![t] = {}]
      /\ UNCHANGED <<id, open, problemAt, trackerAt, source, watched, crashed>>
  BY <1>1 DEF FlushGoalsRemoved, handles
<1> QED
  BY <1>2, FlushTypes DEF ProblemsRegistered, TrackersRegistered, SourcesAreWatched, HeldIsDue

LEMMA DisposeTrackerTInv ==
  ASSUME TInv, NEW t \in Trackers, DisposeTracker(t)
  PROVE  TInv'
<1> USE DEF TInv
<1>1. /\ t \in open /\ t \notin Problems /\ t # NoObject /\ open' = open \ {t}
      /\ id[t] \in Ids /\ trackerAt[id[t]] = t
      /\ trackerAt' = [k \in Ids |-> IF k = id[t] THEN NoObject ELSE trackerAt[k]]
      /\ source' = [c \in Trackers |-> IF c = t THEN NoObject ELSE source[c]]
      /\ goalsRemoved' = [goalsRemoved EXCEPT ![t] = {}]
      /\ watched' = [watched EXCEPT ![t] = NoObject] /\ due' = [due EXCEPT ![t] = {}]
      /\ UNCHANGED <<id, problemAt, crashed>>
  BY OpenIsFound, HandlesAssumption, NoObjectAssumption DEF DisposeTracker, TrackersRegistered
<1>2. ProblemsRegistered'
  BY <1>1 DEF TypeOK, ProblemsRegistered
<1>3. TrackersRegistered'
  BY <1>1 DEF TypeOK, TrackersRegistered
<1>4. SourcesAreWatched'
  <2>1. NoObject \notin open
    BY NoObjectAssumption DEF TypeOK
  <2>2. \A u \in Trackers : watched[u] \in open' <=> watched[u] \in open
    BY <1>1, <2>1 DEF TypeOK
  <2> QED
    BY <1>1, <2>1, <2>2 DEF TypeOK, SourcesAreWatched
<1>5. HeldIsDue'
  BY <1>1 DEF HeldIsDue
<1> QED
  BY <1>2, <1>3, <1>4, <1>5, DisposeTrackerTypeOK

LEMMA NextTInv ==
  ASSUME Tidy, TInv, [Next]_vars
  PROVE  TInv'
<1>1. CASE UNCHANGED vars
  BY <1>1 DEF vars, handles, history, TInv, TypeOK, ProblemsRegistered, TrackersRegistered,
              SourcesAreWatched, HeldIsDue
<1>2. CASE Next
  BY <1>2, NewProblemTInv, DisposeProblemTInv, AddGoalTInv, RemoveGoalsTInv,
     NewTrackerTInv, FlushTInv, DisposeTrackerTInv DEF Next
<1> QED
  BY <1>1, <1>2

LEMMA TInvHolds ==
  ASSUME Tidy
  PROVE  Spec => []TInv
<1>1. TInv /\ [Next]_vars => TInv'
  BY NextTInv
<1> QED
  BY <1>1, InitTInv, PTL DEF Spec

\* Each tracker of a client that uses no disposed object holds just what was
\* removed from its problem: it loses nothing to another tracker's flush and
\* gets nothing from a problem that took over the id.
THEOREM TrackersAreExact ==
  ASSUME Tidy
  PROVE  Spec => []TrackersHoldTheirGoals
<1>1. TInv => TrackersHoldTheirGoals
  BY OpenIsFound DEF TInv, HeldIsDue, TrackersHoldTheirGoals
<1> QED
  BY <1>1, TInvHolds, PTL
=============================================================================
