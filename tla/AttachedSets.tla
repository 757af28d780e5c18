---------------------------- MODULE AttachedSets ----------------------------
(***************************************************************************)
(* What a client may believe of its sets of inferences: a set is attached  *)
(* to a problem or it is not, and what it holds is its own.  A set that is *)
(* disposed goes on serving the problems it is attached to, but no longer  *)
(* safely: as its id may belong to another set now, attaching or detaching *)
(* that one may evict it, and may be refused because of it.  A set that is *)
(* not disposed is never evicted.  InferenceSets implements this           *)
(* specification.                                                          *)
(***************************************************************************)
CONSTANTS Problems, Sets, Inferences

VARIABLES
  live,       \* the sets that are not disposed
  active,     \* which problems use which sets: a relation
  contents    \* the inferences of each set

vars == <<live, active, contents>>

InUse(s) == \E p \in Problems : <<p, s>> \in active

Init == live = {} /\ active = {} /\ contents = [s \in Sets |-> {}]

Create(s) ==
  /\ s \notin live /\ ~ InUse(s)
  /\ live' = live \cup {s} /\ contents' = [contents EXCEPT ![s] = {}]
  /\ UNCHANGED active

Edit(s) ==
  /\ s \in live
  /\ \E some \in SUBSET Inferences : contents' = [contents EXCEPT ![s] = some]
  /\ UNCHANGED <<live, active>>

\* The disposed sets of p whose id s may have.
Colliding(p, s) == {x \in Sets \ live : <<p, x>> \in active /\ <<p, s>> \notin active}

Attach(p, s) ==
  /\ s \in live
  /\ \/ active' = active \cup {<<p, s>>}
     \/ \E x \in Colliding(p, s) : active' \in {active, (active \ {<<p, x>>}) \cup {<<p, s>>}}
  /\ UNCHANGED <<live, contents>>

Detach(p, s) ==
  /\ s \in live
  /\ \/ active' = active \ {<<p, s>>}
     \/ \E x \in Colliding(p, s) : active' = active \ {<<p, x>>}
  /\ UNCHANGED <<live, contents>>

Close(s) == live' = live \ {s} /\ UNCHANGED <<active, contents>>

EndProblem(p) == active' = {pair \in active : pair[1] # p} /\ UNCHANGED <<live, contents>>

Next ==
  \/ \E s \in Sets : Create(s) \/ Edit(s) \/ Close(s)
  \/ \E p \in Problems, s \in Sets : Attach(p, s) \/ Detach(p, s)
  \/ \E p \in Problems : EndProblem(p)

Spec == Init /\ [][Next]_vars
=============================================================================
